---- MODULE Spec2Model ----
(***************************************************************************)
(* Verification model of bitchat-clone: the fragment codec, the PSK/session *)
(* AEAD engine, the HELLO control codec, the session negotiator and the     *)
(* messenger service (ChatService) over the loopback and the BLE transport. *)
(***************************************************************************)
EXTENDS Integers, Sequences, FiniteSets, TLC

(***************************************************************************)
(* Program constants                                                        *)
(***************************************************************************)
PROTO_VER == 1
FLAG_FINAL == 1
HDR_SIZE == 12
MAX_PAYLOAD == 100
UINT16_MAX == 65535
NONCE_SIZE == 24
TAG_SIZE == 16

(***************************************************************************)
(* Bounds of the model                                                      *)
(***************************************************************************)
\* longest payload handed to make_chunks in the codec specification
MaxLen == 3
\* number of fragments fed to one Reassembler in the codec specification
MaxFeeds == 4
\* payload bytes are drawn from 0..MaxByte
MaxByte == 1
\* message ids are drawn from 1..MaxMsgId
MaxMsgId == 1
\* a sealed frame is cut short by up to MaxCut bytes before it is opened
MaxCut == 2

Byte == 0..MaxByte

SeqsUpTo(S, n) == UNION {[1..k -> S] : k \in 0..n}

Min(a, b) == IF a < b THEN a ELSE b

\* std::optional: <<>> is nullopt, <<v>> holds v
None == <<>>
Some(v) == <<v>>

(***************************************************************************)
(* Fragment codec (frag.cpp)                                                *)
(***************************************************************************)
Header(flags, msg_id, seq, total, len) ==
    [ver |-> PROTO_VER, flags |-> flags, msg_id |-> msg_id,
     seq |-> seq, total |-> total, len |-> len]

Chunk(hdr, payload) == [hdr |-> hdr, payload |-> payload]

\* bool is_final = (i + 1 == num_chunks)
is_final_mut(i, num_chunks) == (i = num_chunks)
is_final(i, num_chunks) == (i + 1 = num_chunks)

make_chunks(msg_id, payload, mtu_payload) ==
    IF mtu_payload < 1 \/ mtu_payload > MAX_PAYLOAD
    THEN <<>>
    ELSE IF Len(payload) = 0
    THEN << Chunk(Header(FLAG_FINAL, msg_id, 0, 1, 0), <<>>) >>
    ELSE LET num_chunks == (Len(payload) + mtu_payload - 1) \div mtu_payload
         IN  IF num_chunks > UINT16_MAX
             THEN <<>>
             ELSE [k \in 1..num_chunks |->
                     LET i     == k - 1
                         start == i * mtu_payload
                         take  == Min(mtu_payload, Len(payload) - start)
                     IN  Chunk(Header(IF is_final(i, num_chunks) THEN FLAG_FINAL ELSE 0,
                                      msg_id,
                                      i % (UINT16_MAX + 1),
                                      num_chunks % (UINT16_MAX + 1),
                                      take % (UINT16_MAX + 1)),
                               SubSeq(payload, start + 1, start + take))]

\* Reassembler::State as default-constructed by map_[msg_id]
DefaultState == [total |-> 0, received |-> 0, bytes |-> 0, parts |-> <<>>, have |-> <<>>]

RECURSIVE ConcatParts(_, _)
ConcatParts(parts, n) ==
    IF n = 0 THEN <<>> ELSE ConcatParts(parts, n - 1) \o parts[n]

MapPut(map, k, v) == [x \in DOMAIN map \cup {k} |-> IF x = k THEN v ELSE map[x]]
MapErase_mut(map, k) == map
MapErase(map, k) == [x \in DOMAIN map \ {k} |-> map[x]]

\* the "ignore duplicates" block of feed: store the payload of an unseen seq
feed_store_mut(st, slot, payload) ==
    [st EXCEPT !.parts[slot] = payload, !.have[slot] = TRUE,
               !.received = @ + 1, !.bytes = @ + Len(payload)]
feed_store(st, slot, payload) ==
    IF ~st.have[slot]
    THEN [st EXCEPT !.parts[slot] = payload, !.have[slot] = TRUE,
                    !.received = @ + 1, !.bytes = @ + Len(payload)]
    ELSE st

\* Reassembler::feed: the map after the call and the returned optional
feed(map, c) ==
    IF c.hdr.total = 0 \/ c.hdr.seq >= c.hdr.total \/ c.hdr.len # Len(c.payload)
    THEN [map |-> map, out |-> None]
    ELSE LET msg_id == c.hdr.msg_id
             st0 == IF msg_id \in DOMAIN map THEN map[msg_id] ELSE DefaultState
             st1 == IF st0.total = 0 \/ st0.total # c.hdr.total
                    THEN [total |-> c.hdr.total, received |-> 0, bytes |-> 0,
                          parts |-> [i \in 1..c.hdr.total |-> <<>>],
                          have |-> [i \in 1..c.hdr.total |-> FALSE]]
                    ELSE st0
             slot == c.hdr.seq + 1
             st2 == feed_store(st1, slot, c.payload)
         IN  IF st2.received < st2.total
             THEN [map |-> MapPut(map, msg_id, st2), out |-> None]
             ELSE IF \E i \in 1..st2.total : ~st2.have[i]
             THEN [map |-> MapErase(map, msg_id), out |-> None]
             ELSE [map |-> MapErase(map, msg_id),
                   out |-> Some(ConcatParts(st2.parts, st2.total))]

(***************************************************************************)
(* AEAD engine (psk_aead.cpp).  XChaCha20-Poly1305 is modelled as an ideal  *)
(* AEAD: a key is a tuple of integers, a byte of an AEAD frame is a record  *)
(* [b, mac]; the tag carries the MAC input (key, nonce, AAD, ciphertext) in  *)
(* its first byte, so a tag verifies under exactly the inputs that made it. *)
(***************************************************************************)
AByte(b) == [b |-> b, mac |-> <<>>]

\* the key bytes after sodium_memzero
ZeroKey == <<0>>

RECURSIVE FlatBytes(_, _)
FlatBytes(bs, n) ==
    IF n = 0 THEN <<>>
    ELSE FlatBytes(bs, n - 1) \o <<bs[n].b, Len(bs[n].mac)>> \o bs[n].mac

MacInput(key, npub, ad, ct) ==
    <<Len(key)>> \o key \o FlatBytes(npub, Len(npub))
        \o <<Len(ad)>> \o ad \o <<Len(ct)>> \o FlatBytes(ct, Len(ct))

\* keystream byte of the stream cipher under (key, nonce)
KeyStream(key, npub) == (key[1] + npub[1].b + 1) % 256

AeadTag(key, npub, ad, ct) ==
    [j \in 1..TAG_SIZE |->
        [b |-> j, mac |-> IF j = 1 THEN MacInput(key, npub, ad, ct) ELSE <<>>]]

\* crypto_aead_xchacha20poly1305_ietf_encrypt: ciphertext || tag
aead_encrypt(key, npub, ad, m) ==
    LET ct == [i \in 1..Len(m) |-> AByte((m[i] + KeyStream(key, npub)) % 256)]
    IN  ct \o AeadTag(key, npub, ad, ct)

\* crypto_aead_xchacha20poly1305_ietf_decrypt: rc = 0 and the plaintext, or rc = -1
aead_decrypt(key, npub, ad, c) ==
    IF Len(c) < TAG_SIZE THEN [rc |-> -1, m |-> <<>>]
    ELSE LET ct  == SubSeq(c, 1, Len(c) - TAG_SIZE)
             tag == SubSeq(c, Len(c) - TAG_SIZE + 1, Len(c))
         IN  IF tag = AeadTag(key, npub, ad, ct)
             THEN [rc |-> 0,
                   m |-> [i \in 1..Len(ct) |-> (ct[i].b + 256 - KeyStream(key, npub)) % 256]]
             ELSE [rc |-> -1, m |-> [i \in 1..Len(ct) |-> 0]]

\* SodiumPskAead as constructed from the PSK: no session
NewEngine(key) ==
    [noop |-> FALSE, key_ |-> key, have_session_ |-> FALSE,
     key_tx_ |-> ZeroKey, key_rx_ |-> ZeroKey, nonce_tx_ |-> ZeroKey, nonce_rx_ |-> ZeroKey]

SessionKeys(ke_c2p, ke_p2c, n24_c2p, n24_p2c) ==
    [ke_c2p |-> ke_c2p, ke_p2c |-> ke_p2c, n24_c2p |-> n24_c2p, n24_p2c |-> n24_p2c]

\* SodiumPskAead::set_session; k = None is the null pointer
set_session(e, k) ==
    IF k = None
    THEN [e EXCEPT !.have_session_ = FALSE, !.key_tx_ = ZeroKey, !.key_rx_ = ZeroKey,
                   !.nonce_tx_ = ZeroKey, !.nonce_rx_ = ZeroKey]
    ELSE [e EXCEPT !.key_tx_ = k[1].ke_c2p, !.key_rx_ = k[1].ke_p2c,
                   !.nonce_tx_ = k[1].n24_c2p, !.nonce_rx_ = k[1].n24_p2c,
                   !.have_session_ = TRUE]

\* the key seal encrypts with
seal_key(e) == IF e.have_session_ THEN e.key_tx_ ELSE e.key_

\* SodiumPskAead::seal with the nonce randombytes_buf produced: nonce || c
seal(e, msg, ad, nonce) ==
    LET npub == [i \in 1..NONCE_SIZE |-> AByte(nonce)]
    IN  npub \o aead_encrypt(seal_key(e), npub, ad, msg)

\* the keys open tries, in order: key_rx_ first (if have session), then key_
open_keys_mut(e) == IF e.have_session_ THEN <<e.key_rx_>> ELSE <<e.key_>>
open_keys(e) == IF e.have_session_ THEN <<e.key_rx_, e.key_>> ELSE <<e.key_>>

\* SodiumPskAead::open: the returned bool and the out vector
open(e, in, ad) ==
    IF Len(in) < NONCE_SIZE + TAG_SIZE
    THEN [ok |-> FALSE, out |-> <<>>]
    ELSE LET npub == SubSeq(in, 1, NONCE_SIZE)
             c    == SubSeq(in, NONCE_SIZE + 1, Len(in))
             keys == open_keys(e)
             r1   == aead_decrypt(keys[1], npub, ad, c)
             r    == IF r1.rc # 0 /\ Len(keys) > 1
                     THEN aead_decrypt(keys[2], npub, ad, c)
                     ELSE r1
         IN  [ok |-> (r.rc = 0), out |-> r.m]

\* the associated data of user text, 'B' 'C' '1'
AAD == <<66, 67, 49>>

\* NoopPskAead: no key, no session
NoopEngine == [NewEngine(ZeroKey) EXCEPT !.noop = TRUE]

\* NoopPskAead::seal: 24 zero bytes, the plaintext, 16 zero bytes
noop_seal(msg) ==
    [i \in 1..NONCE_SIZE |-> AByte(0)] \o [i \in 1..Len(msg) |-> AByte(msg[i])]
        \o [i \in 1..TAG_SIZE |-> AByte(0)]

\* NoopPskAead::open: the bytes between the nonce and the tag
noop_open(in) ==
    IF Len(in) < NONCE_SIZE + TAG_SIZE
    THEN [ok |-> FALSE, out |-> <<>>]
    ELSE [ok |-> TRUE,
          out |-> [i \in 1..(Len(in) - NONCE_SIZE - TAG_SIZE) |-> in[NONCE_SIZE + i].b]]

\* calls through the PskAead reference aead_ of ChatService
aead_seal(e, msg, ad, nonce) == IF e.noop THEN noop_seal(msg) ELSE seal(e, msg, ad, nonce)
aead_open(e, in, ad) == IF e.noop THEN noop_open(in) ELSE open(e, in, ad)
aead_set_session(e, k) == IF e.noop THEN e ELSE set_session(e, k)

(***************************************************************************)
(* Fragment wire format (frag.cpp): a frame is a sequence of wire bytes     *)
(***************************************************************************)
\* big-endian bytes of an n-byte unsigned value (htonl, htons)
RECURSIVE BeBytes(_, _)
BeBytes(v, n) == IF n = 0 THEN <<>> ELSE BeBytes(v \div 256, n - 1) \o <<AByte(v % 256)>>

\* value of the first n bytes read big-endian (ntohl, ntohs)
RECURSIVE BeValue(_, _)
BeValue_mut(bs, n) == IF n = 0 THEN 0 ELSE BeValue(SubSeq(bs, 2, n), n - 1) * 256 + bs[1].b
BeValue(bs, n) == IF n = 0 THEN 0 ELSE BeValue(bs, n - 1) * 256 + bs[n].b

\* the validation pack_header and unpack_header share
header_valid_mut(h) ==
    h.ver = PROTO_VER /\ h.total # 0 /\ h.seq < h.total
header_valid(h) ==
    h.ver = PROTO_VER /\ h.total # 0 /\ h.seq < h.total /\ h.len <= MAX_PAYLOAD

pack_header(in) ==
    IF ~header_valid(in) THEN None
    ELSE Some(<<AByte(in.ver), AByte(in.flags)>> \o BeBytes(in.msg_id, 4)
                \o BeBytes(in.seq, 2) \o BeBytes(in.total, 2) \o BeBytes(in.len, 2))

unpack_header(in) ==
    LET out == [ver |-> in[1].b, flags |-> in[2].b,
                msg_id |-> BeValue(SubSeq(in, 3, 6), 4),
                seq |-> BeValue(SubSeq(in, 7, 8), 2),
                total |-> BeValue(SubSeq(in, 9, 10), 2),
                len |-> BeValue(SubSeq(in, 11, 12), 2)]
    IN  IF header_valid(out) THEN Some(out) ELSE None

\* serialize: the empty vector on failure
serialize(c) ==
    IF Len(c.payload) # c.hdr.len THEN <<>>
    ELSE LET h == pack_header(c.hdr)
         IN  IF h = None THEN <<>> ELSE h[1] \o c.payload

parse(frame) ==
    IF Len(frame) < HDR_SIZE THEN None
    ELSE LET h == unpack_header(SubSeq(frame, 1, HDR_SIZE))
         IN  IF h = None THEN None
             ELSE IF Len(frame) # HDR_SIZE + h[1].len THEN None
             ELSE Some(Chunk(h[1], SubSeq(frame, HDR_SIZE + 1, Len(frame))))

(***************************************************************************)
(* Control codec (ctrl.hpp)                                                 *)
(***************************************************************************)
MSG_CTRL_HELLO == 1
HELLO_VER == 1
T_USER_ID == 1
T_CAPS == 2
T_NA32 == 18
CAP_AEAD_PSK_SUPPORTED == 1
USER_ID_MAX == 64
NA32_SIZE == 32

WireBytes(vs) == [i \in 1..Len(vs) |-> AByte(vs[i])]
ByteVals(bs) == [i \in 1..Len(bs) |-> bs[i].b]

\* ctrl::Hello as value-initialised
EmptyHello ==
    [user_id |-> <<>>, has_caps |-> FALSE, caps |-> 0, has_na32 |-> FALSE,
     na32 |-> [i \in 1..NA32_SIZE |-> 0]]

\* encode_hello; na32 = None is the null pointer
encode_hello(user, caps, na32) ==
    LET uid_len == IF Len(user) > USER_ID_MAX THEN USER_ID_MAX ELSE Len(user)
    IN  WireBytes(
          <<MSG_CTRL_HELLO, HELLO_VER>>
          \o (IF uid_len > 0
              THEN <<T_USER_ID, 0, uid_len % 256>> \o SubSeq(user, 1, uid_len)
              ELSE <<>>)
          \o <<T_CAPS, 0, 4, caps % 256, (caps \div 256) % 256,
               (caps \div 65536) % 256, (caps \div 16777216) % 256>>
          \o (IF na32 # None THEN <<T_NA32, 0, NA32_SIZE>> \o na32[1] ELSE <<>>))

\* the while loop of parse_hello from offset i (0-based) with h parsed so far
RECURSIVE parse_tlvs(_, _, _)
parse_tlvs(buf, i, h) ==
    IF i + 3 > Len(buf) THEN Some(h)
    ELSE LET t == buf[i + 1].b
             L == buf[i + 2].b * 256 + buf[i + 3].b
             j == i + 3
         IN  IF j + L > Len(buf) THEN None
             ELSE IF t = T_USER_ID
             THEN IF L = 0 \/ L > USER_ID_MAX THEN None
                  ELSE parse_tlvs(buf, j + L,
                                  [h EXCEPT !.user_id = ByteVals(SubSeq(buf, j + 1, j + L))])
             ELSE IF t = T_CAPS
             THEN IF L # 4 THEN None
                  ELSE parse_tlvs(buf, j + L,
                                  [h EXCEPT !.has_caps = TRUE,
                                            !.caps = buf[j + 1].b + buf[j + 2].b * 256
                                                     + buf[j + 3].b * 65536
                                                     + buf[j + 4].b * 16777216])
             ELSE IF t = T_NA32
             THEN IF L # NA32_SIZE THEN None
                  ELSE parse_tlvs(buf, j + L,
                                  [h EXCEPT !.has_na32 = TRUE,
                                            !.na32 = ByteVals(SubSeq(buf, j + 1, j + L))])
             ELSE parse_tlvs(buf, j + L, h)

\* parse_hello: None when it returns false, else the Hello
parse_hello(buf) ==
    IF Len(buf) < 2 \/ buf[1].b # MSG_CTRL_HELLO \/ buf[2].b # HELLO_VER THEN None
    ELSE parse_tlvs(buf, 2, EmptyHello)

(***************************************************************************)
(* Session negotiator (ChatService::derive_and_install).  HKDF-SHA256 is    *)
(* modelled as an injective encoding of its inputs.                         *)
(***************************************************************************)
\* the HKDF expand contexts "bcKC2P1", "bcKP2C1", "bcNC2P1", "bcNP2C1"
CTX_KE_C2P == <<98, 99, 75, 67, 50, 80, 49>>
CTX_KE_P2C == <<98, 99, 75, 80, 50, 67, 49>>
CTX_N_C2P == <<98, 99, 78, 67, 50, 80, 49>>
CTX_N_P2C == <<98, 99, 78, 80, 50, 67, 49>>

\* crypto_kdf_hkdf_sha256_extract(prk, salt, ikm)
hkdf_extract(salt, ikm) == <<Len(salt)>> \o salt \o ikm
\* crypto_kdf_hkdf_sha256_expand(out, ctx, prk)
hkdf_expand(ctx, prk) == ctx \o prk

\* k_local: the non-central side swaps the two directions
role_keys_mut(keys, is_central_) == keys
role_keys(keys, is_central_) ==
    IF ~is_central_
    THEN SessionKeys(keys.ke_p2c, keys.ke_c2p, keys.n24_p2c, keys.n24_c2p)
    ELSE keys

\* derive_and_install on ChatService c with engine e; psk = None when
\* BITCHAT_PSK does not parse
derive_and_install(c, e, psk) ==
    LET ikm == IF c.is_central_ THEN c.na32_ \o c.peer_na32_ ELSE c.peer_na32_ \o c.na32_
    IN  IF psk = None \/ psk = Some(<<>>) THEN [chat |-> c, aead |-> e]
        ELSE LET prk  == hkdf_extract(psk[1], ikm)
                 keys == SessionKeys(hkdf_expand(CTX_KE_C2P, prk), hkdf_expand(CTX_KE_P2C, prk),
                                     hkdf_expand(CTX_N_C2P, prk), hkdf_expand(CTX_N_P2C, prk))
                 k_local == role_keys(keys, c.is_central_)
             IN  [chat |-> [c EXCEPT !.aead_on_ = TRUE],
                  aead |-> aead_set_session(e, Some(k_local))]

\* the early returns of maybe_kex, negated
kex_ready_mut(c) ==
    c.local_has_psk_ /\ c.peer_has_psk_ /\ c.have_na_local_ /\ c.have_na_peer_
kex_ready(c) ==
    /\ c.local_has_psk_ /\ c.peer_has_psk_
    /\ c.have_na_local_ /\ c.have_na_peer_
    /\ ~c.aead_on_

maybe_kex(c, e, psk) ==
    IF kex_ready(c) THEN derive_and_install(c, e, psk) ELSE [chat |-> c, aead |-> e]

(***************************************************************************)
(* Messenger service (ChatService)                                          *)
(***************************************************************************)
\* the local nonce get_na32 reads from /dev/urandom: 32 bytes; n is the value
\* the read produced (the protocol specification gives the central the odd
\* values and the peripheral the even ones, a new one at every call)
get_na32(n) == [i \in 1..NA32_SIZE |-> n]

\* ChatService after construction and start(): psk is the parsed BITCHAT_PSK
NewChat(mtu_payload, is_central, psk, enable_hello, user, na) ==
    [mtu_payload_ |-> mtu_payload, next_id_ |-> 1, rx_ |-> << >>,
     is_central_ |-> is_central,
     local_has_psk_ |-> (psk # None /\ psk # Some(<<>>)),
     local_caps_ |-> IF psk # None /\ psk # Some(<<>>) THEN CAP_AEAD_PSK_SUPPORTED ELSE 0,
     ctrl_hello_enabled_ |-> enable_hello,
     local_user_ |-> SubSeq(user, 1, Min(Len(user), USER_ID_MAX)),
     hello_stop_ |-> FALSE, hello_sent_ |-> FALSE,
     na32_ |-> na,
     have_na_local_ |-> (psk # None /\ psk # Some(<<>>)),
     have_na_peer_ |-> FALSE, peer_na32_ |-> [i \in 1..NA32_SIZE |-> 0],
     peer_has_psk_ |-> FALSE, peer_caps_ |-> 0, peer_user_ |-> <<>>,
     aead_on_ |-> FALSE,
     \* the hello thread: its locals and its position in the loop
     last_ready |-> FALSE, ready |-> FALSE, pc |-> "poll"]

\* ChatService::on_rx: the service and engine after the call, the plaintext
\* produced (at most one) and what the call did with the frame
on_rx(c, e, psk, f) ==
    LET h == IF c.ctrl_hello_enabled_ /\ Len(f) >= 2
                  /\ f[1].b = MSG_CTRL_HELLO /\ f[2].b = HELLO_VER
             THEN parse_hello(f) ELSE None
    IN  IF h # None
        THEN LET c1 == [c EXCEPT
                          !.peer_user_ = IF h[1].user_id # <<>> THEN h[1].user_id ELSE @,
                          !.peer_caps_ = IF h[1].has_caps THEN h[1].caps ELSE @,
                          !.peer_has_psk_ =
                              (h[1].has_caps
                               /\ (h[1].caps \div CAP_AEAD_PSK_SUPPORTED) % 2 = 1),
                          !.peer_na32_ = IF h[1].has_na32 THEN h[1].na32
                                         ELSE [i \in 1..NA32_SIZE |-> 0],
                          !.have_na_peer_ = IF h[1].has_na32 THEN TRUE ELSE @]
                 r  == maybe_kex(c1, e, psk)
             IN  [chat |-> r.chat, aead |-> r.aead, out |-> <<>>, ev |-> "hello"]
        ELSE LET ch == parse(f)
             IN  IF ch = None
                 THEN [chat |-> c, aead |-> e, out |-> <<>>, ev |-> "invalid"]
                 ELSE LET fr == feed(c.rx_, ch[1])
                          c2 == [c EXCEPT !.rx_ = fr.map]
                      IN  IF fr.out = None
                          THEN [chat |-> c2, aead |-> e, out |-> <<>>, ev |-> "partial"]
                          ELSE LET o == aead_open(e, fr.out[1], AAD)
                               IN  IF ~o.ok
                                   THEN [chat |-> c2, aead |-> e, out |-> <<>>,
                                         ev |-> "authfail"]
                                   ELSE [chat |-> c2, aead |-> e, out |-> <<o.out>>,
                                         ev |-> "plain"]

\* payload_mtu of send_text
payload_mtu(frame_mtu) == IF frame_mtu > HDR_SIZE THEN frame_mtu - HDR_SIZE ELSE 0

\* steps 1 and 2 of send_text: seal, then make_chunks with next_id_.fetch_add(1)
\* (the ids the specifications reach stay far below the 32-bit wrap)
send_text_chunks(c, e, msg, nonce) ==
    LET sealed_text == aead_seal(e, msg, AAD, nonce)
        chunks      == make_chunks(c.next_id_, sealed_text, payload_mtu(c.mtu_payload_))
    IN  [chat |-> [c EXCEPT !.next_id_ = @ + 1],
         chunks |-> chunks,
         failed |-> (sealed_text # <<>> /\ chunks = <<>>)]

\* LoopbackTransport::send accepts the frame
loopback_send_ok(tx, frame) ==
    tx.started_ /\ ~(tx.mtu_ # 0 /\ Len(frame) > tx.mtu_)

\* one iteration of the for loop of send_text over the loopback transport:
\* serialize, tx_.send, and inside send the on_rx of the accepted frame
loop_send_one(st, psk, ch) ==
    LET frame == serialize(ch)
    IN  IF frame = <<>> /\ ch.hdr.len # 0 THEN [st EXCEPT !.failed = TRUE]
        ELSE IF ~loopback_send_ok(st.tx, frame) THEN [st EXCEPT !.failed = TRUE]
        ELSE LET r == on_rx(st.chat, st.aead, psk, frame)
             IN  [st EXCEPT !.chat = r.chat, !.aead = r.aead, !.out = @ \o r.out]

\* the iterations for chunks a..b in order, stopping at the first failure
RECURSIVE loop_send(_, _, _, _, _)
loop_send(st, psk, chunks, a, b) ==
    IF st.failed \/ a > b THEN st
    ELSE IF a = b THEN loop_send_one(st, psk, chunks[a])
    ELSE LET mid == (a + b) \div 2
             st1 == loop_send(st, psk, chunks, a, mid)
         IN  loop_send(st1, psk, chunks, mid + 1, b)

\* BluezTransport::send accepts the frame
bluez_send_ok(tx, frame) == tx.started_ /\ frame # <<>> /\ tx.link

\* step 3 of send_text over the BLE transport: the frames the loop hands to
\* the transport and what send_text returns (the link does not change
\* during the call)
bluez_send_frames(tx, chunks) ==
    LET frames == [k \in 1..Len(chunks) |-> serialize(chunks[k])]
        bad(k) == \/ (frames[k] = <<>> /\ chunks[k].hdr.len # 0)
                  \/ ~bluez_send_ok(tx, frames[k])
        firstbad == IF \E k \in 1..Len(chunks) : bad(k)
                    THEN CHOOSE k \in 1..Len(chunks) :
                            bad(k) /\ \A j \in 1..(k - 1) : ~bad(j)
                    ELSE Len(chunks) + 1
    IN  [frames |-> SubSeq(frames, 1, firstbad - 1), ret |-> (firstbad > Len(chunks))]

(***************************************************************************)
(* State                                                                    *)
(***************************************************************************)
VARIABLES
    \* codec specification: one sender's make_chunks call and one Reassembler
    fr_msg_id,      \* msg_id argument of make_chunks
    fr_payload,     \* payload argument of make_chunks
    fr_mtu,         \* mtu_payload argument of make_chunks
    fr_chunks,      \* None before the call, Some(result) after
    map_,           \* Reassembler::map_
    fr_feeds,       \* seq values of the chunks fed so far, in order
    fr_rets,        \* what each feed returned, in order
    \* AEAD specification: one receiving engine and one byte buffer
    ae_eng,         \* the SodiumPskAead that opens
    ae_in,          \* None, or Some(bytes) about to be passed to open
    ae_src,         \* how ae_in was made: the sealing key, AAD, plaintext, intact
    ae_res,         \* None, or Some([ok, out, ad]) returned by open(ae_in, ad)
    \* negotiator specification: derive_and_install on two sides
    kx_in,          \* per side: BITCHAT_PSK and the nonces (na central, nb peripheral)
    kx_eng,         \* per side: the SodiumPskAead
    kx_frame,       \* None, or Some([from, msg, bytes]) sealed in session mode
    kx_res,         \* None, or Some(result of open on the other side)
    \* messenger specifications: ChatService instances over their transports
    psk_env,        \* per side: the parsed BITCHAT_PSK, None when unset
    chat,           \* per side: the ChatService fields and its hello thread
    aead_,          \* per side: the engine behind ChatService::aead_
    tx_,            \* per side: the transport behind ChatService::tx_
    wire,           \* per side: frames written by the peer, not yet received
    period,         \* number of times the link has come up
    sent,           \* per side: None, or Some(kind of the first frame the transport accepted in this link period)
    got_hello,      \* per side: a peer HELLO was received in this link period
    texts,          \* one entry per send_text call: its message, result and effect
    rx_text,        \* per side: one entry per message that reached AEAD open
    \* engine specification: one SodiumPskAead shared by three threads
    se_eng,         \* have_session_, key_tx_, key_rx_, nonce_tx_, nonce_rx_ (keys in halves)
    se_thr,         \* per thread: the call it is in, its position and its locals
    se_used,        \* per thread: None, or Some(mode and key its last seal or open used)
    \* bus specification: the loop thread of a role engine, a caller and stop()
    bs,             \* role, running_, the bus handle, the slots, bus_mu and its holder
    bs_pc,          \* per thread: its position
    \* send specification: one transport of each variant and its last send
    sd,             \* variant, started, the link flags of its role, mtu_payload
    sd_last,        \* None, or Some(length, state and outcome of the last send)
    \* central specification: the loop thread, a handover_to caller, a sender
    ce,             \* the central fields of BluezTransport::Impl and cfg_.peer_addr
    ce_pc,          \* per thread: its position; the loop thread's locals
    ce_env,         \* BlueZ: known devices, pending Connect calls, queued Value signals
    ce_now,         \* steady_clock in ms
    ce_g            \* history: last handover, last error reply, what was done since

fragVars == <<fr_msg_id, fr_payload, fr_mtu, fr_chunks, map_, fr_feeds, fr_rets>>
aeadVars == <<ae_eng, ae_in, ae_src, ae_res>>
kexVars == <<kx_in, kx_eng, kx_frame, kx_res>>
svcVars == <<psk_env, chat, aead_, tx_, wire, period, sent, got_hello, texts, rx_text>>

sessVars == <<se_eng, se_thr, se_used>>
busVars == <<bs, bs_pc>>
sendVars == <<sd, sd_last>>
cenVars == <<ce, ce_pc, ce_env, ce_now, ce_g>>
extVars == <<sessVars, busVars, sendVars, cenVars>>
\* what the actions of one specification leave alone
sessRest == <<fragVars, aeadVars, kexVars, svcVars, busVars, sendVars, cenVars>>
busRest == <<fragVars, aeadVars, kexVars, svcVars, sessVars, sendVars, cenVars>>
sendRest == <<fragVars, aeadVars, kexVars, svcVars, sessVars, busVars, cenVars>>
cenRest == <<fragVars, aeadVars, kexVars, svcVars, sessVars, busVars, sendVars>>

vars == <<fragVars, aeadVars, kexVars, svcVars, extVars>>

\* state of a component that a specification does not exercise
FragIdle ==
    /\ fr_msg_id = 1 /\ fr_payload = <<>> /\ fr_mtu = 0 /\ fr_chunks = None
    /\ map_ = << >> /\ fr_feeds = <<>> /\ fr_rets = <<>>
\* PSKs the engines are constructed with, session keys and nonces installed
PskArgs == {<<17>>, <<34>>}
SessKeyArgs == {<<17>>, <<51>>}
AeadIdle ==
    /\ ae_eng = NewEngine(<<17>>) /\ ae_in = None /\ ae_src = None /\ ae_res = None
KexIdle ==
    /\ kx_in = << >> /\ kx_eng = << >> /\ kx_frame = None /\ kx_res = None
SvcIdle ==
    /\ psk_env = << >> /\ chat = << >> /\ aead_ = << >> /\ tx_ = << >> /\ wire = << >>
    /\ period = 0 /\ sent = << >> /\ got_hello = << >> /\ texts = <<>> /\ rx_text = << >>
SessIdle ==
    /\ se_eng = << >> /\ se_thr = << >> /\ se_used = << >>
CoreIdle == FragIdle /\ AeadIdle /\ KexIdle /\ SvcIdle
BusIdle == bs = << >> /\ bs_pc = << >>
SendIdle == sd = << >> /\ sd_last = None
CenIdle ==
    /\ ce = << >> /\ ce_pc = << >> /\ ce_env = << >> /\ ce_now = 0 /\ ce_g = << >>
ExtIdle == SessIdle /\ BusIdle /\ SendIdle /\ CenIdle

\* mtu_payload arguments tried: both sides of each limit of [1, MAX_PAYLOAD]
MtuArgs == {0, 1, 2, MAX_PAYLOAD, MAX_PAYLOAD + 1}

FragInit ==
    /\ AeadIdle /\ KexIdle /\ SvcIdle /\ ExtIdle
    /\ fr_msg_id \in 1..MaxMsgId
    /\ fr_payload \in SeqsUpTo(Byte, MaxLen)
    /\ fr_mtu \in MtuArgs
    /\ fr_chunks = None
    /\ map_ = << >>
    /\ fr_feeds = <<>>
    /\ fr_rets = <<>>

\* the sender calls make_chunks
FragMake ==
    /\ fr_chunks = None
    /\ fr_chunks' = Some(make_chunks(fr_msg_id, fr_payload, fr_mtu))
    /\ UNCHANGED <<fr_msg_id, fr_payload, fr_mtu, map_, fr_feeds, fr_rets>>
    /\ UNCHANGED <<aeadVars, kexVars, svcVars, extVars>>

\* the receiver feeds one of the chunks (any order, repeats allowed)
FragFeed ==
    /\ fr_chunks # None
    /\ Len(fr_feeds) < MaxFeeds
    /\ \E k \in 1..Len(fr_chunks[1]) :
         LET c == fr_chunks[1][k]
             r == feed(map_, c)
         IN  /\ map_' = r.map
             /\ fr_feeds' = Append(fr_feeds, c.hdr.seq)
             /\ fr_rets' = Append(fr_rets, r.out)
    /\ UNCHANGED <<fr_msg_id, fr_payload, fr_mtu, fr_chunks>>
    /\ UNCHANGED <<aeadVars, kexVars, svcVars, extVars>>

FragNext == FragMake \/ FragFeed

SpecFrag == FragInit /\ [][FragNext]_vars

(***************************************************************************)
(* Claims on the fragment codec, checked under SpecFrag                     *)
(***************************************************************************)
RECURSIVE ConcatPayloads(_, _)
ConcatPayloads(cs, n) ==
    IF n = 0 THEN <<>> ELSE ConcatPayloads(cs, n - 1) \o cs[n].payload

\* C2: for mtu_payload in [1,100] make_chunks returns fragments whose payloads
\* concatenated in seq order give the payload, each with len <= mtu_payload,
\* with seq exactly 0..total-1, FLAG_FINAL on the last fragment and on no
\* other; an empty payload gives exactly one FINAL fragment of length zero.
C2_MakeChunks ==
    (fr_chunks # None /\ fr_mtu >= 1 /\ fr_mtu <= MAX_PAYLOAD) =>
        LET cs == fr_chunks[1]
            n  == Len(cs)
        IN  /\ n >= 1
            /\ ConcatPayloads(cs, n) = fr_payload
            /\ \A k \in 1..n :
                  /\ cs[k].hdr.len <= fr_mtu
                  /\ cs[k].hdr.len = Len(cs[k].payload)
                  /\ cs[k].hdr.seq = k - 1
                  /\ cs[k].hdr.total = n
                  /\ cs[k].hdr.msg_id = fr_msg_id
                  /\ (cs[k].hdr.flags = FLAG_FINAL) <=> (k = n)
                  /\ cs[k].hdr.flags \in {0, FLAG_FINAL}
            /\ (fr_payload = <<>>) =>
                  (n = 1 /\ cs[1].hdr.flags = FLAG_FINAL /\ cs[1].hdr.len = 0)

\* C2 witness: a payload split into two fragments, the last one shorter
C2_Witness ==
    /\ fr_chunks # None
    /\ fr_mtu = 2
    /\ Len(fr_payload) = 3
    /\ Len(fr_chunks[1]) = 2
    /\ fr_chunks[1][2].hdr.len = 1

SeenUpTo(k) == {fr_feeds[j] : j \in 1..k}

\* C3: feeding the fragments of one message in any order, with repeats, feed
\* returns nothing while a seq is still missing, and the feed that supplies
\* the last missing seq returns exactly the original payload.
C3_Reassembly ==
    (fr_chunks # None /\ Len(fr_chunks[1]) >= 1) =>
        LET all == 0..(Len(fr_chunks[1]) - 1)
        IN  \A k \in 1..Len(fr_rets) :
              /\ (SeenUpTo(k) # all) => fr_rets[k] = None
              /\ (SeenUpTo(k) = all /\ SeenUpTo(k - 1) # all) =>
                    fr_rets[k] = Some(fr_payload)

\* C3 witness: three fragments fed as f0, f0, f2, f1; the last feed completes
C3_Witness ==
    /\ fr_feeds = <<0, 0, 2, 1>>
    /\ fr_payload = <<0, 1, 1>>
    /\ fr_rets[4] = Some(fr_payload)

(***************************************************************************)
(* AEAD specification: an engine receives bytes that some engine sealed and *)
(* that were possibly modified on the way                                   *)
(***************************************************************************)
MsgArgs == {<<>>, <<7>>, <<7, 200>>}
AadArgs == {AAD, <<66, 67, 50>>}
NonceArgs == {5}
SessArgs == {Some(SessionKeys(tx, rx, ZeroKey, ZeroKey)) : tx, rx \in SessKeyArgs}
EngineArgs ==
    {set_session(NewEngine(k), None) : k \in PskArgs}
        \cup {set_session(NewEngine(k), sk) : k \in PskArgs, sk \in SessArgs}

AeadInit ==
    /\ FragIdle /\ KexIdle /\ SvcIdle /\ ExtIdle
    /\ ae_eng \in {NewEngine(k) : k \in PskArgs}
    /\ ae_in = None
    /\ ae_src = None
    /\ ae_res = None

\* set_session(&k) or set_session(nullptr) on the receiving engine
AeSetSession ==
    /\ ae_res = None
    /\ \E k \in SessArgs \cup {None} : ae_eng' = set_session(ae_eng, k)
    /\ UNCHANGED <<ae_in, ae_src, ae_res>>
    /\ UNCHANGED <<fragVars, kexVars, svcVars, extVars>>

\* some engine seals a plaintext
AeSeal ==
    /\ ae_in = None
    /\ \E snd \in EngineArgs, msg \in MsgArgs, ad \in AadArgs, n \in NonceArgs :
         /\ ae_in' = Some(seal(snd, msg, ad, n))
         /\ ae_src' = Some([key |-> seal_key(snd), ad |-> ad, msg |-> msg, intact |-> TRUE])
    /\ UNCHANGED <<ae_eng, ae_res>>
    /\ UNCHANGED <<fragVars, kexVars, svcVars, extVars>>

\* one byte of the frame is flipped on the way
AeFlip ==
    /\ ae_in # None /\ ae_res = None /\ ae_src[1].intact
    /\ \E i \in 1..Len(ae_in[1]) :
         ae_in' = Some([ae_in[1] EXCEPT ![i] = [@ EXCEPT !.b = 255 - @]])
    /\ ae_src' = Some([ae_src[1] EXCEPT !.intact = FALSE])
    /\ UNCHANGED <<ae_eng, ae_res>>
    /\ UNCHANGED <<fragVars, kexVars, svcVars, extVars>>

\* the frame loses its last bytes on the way
AeCut ==
    /\ ae_in # None /\ ae_res = None /\ ae_src[1].intact
    /\ \E n \in 1..MaxCut :
         /\ n <= Len(ae_in[1])
         /\ ae_in' = Some(SubSeq(ae_in[1], 1, Len(ae_in[1]) - n))
    /\ ae_src' = Some([ae_src[1] EXCEPT !.intact = FALSE])
    /\ UNCHANGED <<ae_eng, ae_res>>
    /\ UNCHANGED <<fragVars, kexVars, svcVars, extVars>>

\* the receiving engine opens the bytes
AeOpen ==
    /\ ae_in # None /\ ae_res = None
    /\ \E ad \in AadArgs :
         LET r == open(ae_eng, ae_in[1], ad)
         IN  ae_res' = Some([ok |-> r.ok, out |-> r.out, ad |-> ad])
    /\ UNCHANGED <<ae_eng, ae_in, ae_src>>
    /\ UNCHANGED <<fragVars, kexVars, svcVars, extVars>>

AeadNext == AeSetSession \/ AeSeal \/ AeFlip \/ AeCut \/ AeOpen

SpecAead == AeadInit /\ [][AeadNext]_vars

\* the keys under which the receiving engine accepts a frame
AcceptKeys(e) == {e.key_} \cup (IF e.have_session_ THEN {e.key_rx_} ELSE {})

\* C10: open returns the plaintext exactly when the bytes are at least 40 long
\* and are an unmodified frame sealed with the same AAD under the installed
\* session RX key or under the single PSK; otherwise it fails.
C10_Open ==
    ae_res # None =>
        LET r == ae_res[1]
            good == /\ Len(ae_in[1]) >= NONCE_SIZE + TAG_SIZE
                    /\ ae_src[1].intact
                    /\ ae_src[1].ad = r.ad
                    /\ ae_src[1].key \in AcceptKeys(ae_eng)
        IN  /\ r.ok <=> good
            /\ r.ok => r.out = ae_src[1].msg

\* C10 witness: the receiver holds a session whose RX key does not match, the
\* frame was sealed under the single PSK, and open falls back and succeeds
C10_Witness ==
    /\ ae_res # None
    /\ ae_res[1].ok
    /\ ae_eng.have_session_
    /\ ae_src[1].key # ae_eng.key_rx_
    /\ ae_res[1].out = <<7, 200>>

(***************************************************************************)
(* Negotiator specification: each side runs derive_and_install on its own   *)
(* PSK and its own view of the nonces; a frame sealed in session mode by    *)
(* one side is opened by the other                                          *)
(***************************************************************************)
Sides == {"central", "peripheral"}
Peer(s) == IF s = "central" THEN "peripheral" ELSE "central"
Na32Args == {get_na32(1), get_na32(2)}

KexInit ==
    /\ FragIdle /\ AeadIdle /\ SvcIdle /\ ExtIdle
    /\ kx_in \in [Sides -> [psk : PskArgs, na : Na32Args, nb : Na32Args]]
    /\ kx_eng = [s \in Sides |-> NewEngine(kx_in[s].psk)]
    /\ kx_frame = None
    /\ kx_res = None

\* the ChatService fields derive_and_install reads
KexChat(s) ==
    [is_central_ |-> (s = "central"),
     na32_ |-> IF s = "central" THEN kx_in[s].na ELSE kx_in[s].nb,
     peer_na32_ |-> IF s = "central" THEN kx_in[s].nb ELSE kx_in[s].na,
     aead_on_ |-> kx_eng[s].have_session_]

KexDerive(s) ==
    /\ ~kx_eng[s].have_session_
    /\ kx_eng' = [kx_eng EXCEPT
                    ![s] = derive_and_install(KexChat(s), kx_eng[s], Some(kx_in[s].psk)).aead]
    /\ UNCHANGED <<kx_in, kx_frame, kx_res>>
    /\ UNCHANGED <<fragVars, aeadVars, svcVars, extVars>>

\* a side that holds a session seals a text
KexSeal(s) ==
    /\ kx_frame = None
    /\ kx_eng[s].have_session_
    /\ \E msg \in MsgArgs, n \in NonceArgs :
         kx_frame' = Some([from |-> s, msg |-> msg, bytes |-> seal(kx_eng[s], msg, AAD, n)])
    /\ UNCHANGED <<kx_in, kx_eng, kx_res>>
    /\ UNCHANGED <<fragVars, aeadVars, svcVars, extVars>>

\* the other side opens it; rx tells whether the session RX key verified it
KexOpen ==
    /\ kx_frame # None /\ kx_res = None
    /\ LET e    == kx_eng[Peer(kx_frame[1].from)]
           in   == kx_frame[1].bytes
           r    == open(e, in, AAD)
           npub == SubSeq(in, 1, NONCE_SIZE)
           c    == SubSeq(in, NONCE_SIZE + 1, Len(in))
       IN  kx_res' = Some([ok |-> r.ok, out |-> r.out, session |-> e.have_session_,
                           rx |-> (e.have_session_
                                   /\ aead_decrypt(e.key_rx_, npub, AAD, c).rc = 0)])
    /\ UNCHANGED <<kx_in, kx_eng, kx_frame>>
    /\ UNCHANGED <<fragVars, aeadVars, svcVars, extVars>>

KexNext == (\E s \in Sides : KexDerive(s) \/ KexSeal(s)) \/ KexOpen

SpecKex == KexInit /\ [][KexNext]_vars

\* C9: with identical (PSK, Na, Nb) on both sides, the central's outgoing key
\* and nonce base equal the peripheral's incoming ones and the peripheral's
\* outgoing pair equals the central's incoming pair, so a frame sealed in
\* session mode by either side opens with the other side's session RX key.
C9_RoleConsistent ==
    (kx_in["central"] = kx_in["peripheral"] /\ \A s \in Sides : kx_eng[s].have_session_) =>
        /\ kx_eng["central"].key_tx_ = kx_eng["peripheral"].key_rx_
        /\ kx_eng["central"].nonce_tx_ = kx_eng["peripheral"].nonce_rx_
        /\ kx_eng["peripheral"].key_tx_ = kx_eng["central"].key_rx_
        /\ kx_eng["peripheral"].nonce_tx_ = kx_eng["central"].nonce_rx_
        /\ (kx_res # None /\ kx_res[1].session) =>
              /\ kx_res[1].rx
              /\ kx_res[1].ok
              /\ kx_res[1].out = kx_frame[1].msg

\* C9 witness: identical inputs, the peripheral sealed in session mode and
\* the central opened the frame with its session RX key
C9_Witness ==
    /\ kx_in["central"] = kx_in["peripheral"]
    /\ kx_in["central"].na # kx_in["central"].nb
    /\ kx_res # None
    /\ kx_res[1].rx
    /\ kx_frame[1].from = "peripheral"
    /\ kx_res[1].out = <<7, 200>>
    /\ kx_eng["central"].key_tx_ # kx_eng["central"].key_rx_

(***************************************************************************)
(* Loopback specification: one ChatService over a LoopbackTransport, HELLO  *)
(* disabled (the default for loopback)                                      *)
(***************************************************************************)
\* number of send_text calls
MaxSends == 2

LoopSide == "loopback"
\* ChatService mtu_payload: both sides of each limit of [HDR_SIZE + 1,
\* HDR_SIZE + MAX_PAYLOAD], and the size at which an empty text is one fragment
LoopMtuArgs == {0, HDR_SIZE, HDR_SIZE + 1, HDR_SIZE + 2, HDR_SIZE + NONCE_SIZE + TAG_SIZE,
                HDR_SIZE + MAX_PAYLOAD, HDR_SIZE + MAX_PAYLOAD + 1}
PskOpt == {None} \cup {Some(k) : k \in PskArgs}
\* daemon main: SodiumPskAead when BITCHAT_PSK is set, else NoopPskAead
EngineOf(psk) == IF psk = None THEN NoopEngine ELSE NewEngine(psk[1])

LoopInit ==
    /\ FragIdle /\ AeadIdle /\ KexIdle /\ ExtIdle
    /\ \E mtu \in LoopMtuArgs, psk \in PskOpt :
         /\ psk_env = [s \in {LoopSide} |-> psk]
         /\ chat = [s \in {LoopSide} |->
                      NewChat(mtu, FALSE, psk, FALSE, <<>>, [i \in 1..NA32_SIZE |-> 0])]
         /\ aead_ = [s \in {LoopSide} |-> EngineOf(psk)]
         /\ tx_ = [s \in {LoopSide} |->
                     [name |-> "loopback", started_ |-> TRUE, mtu_ |-> mtu, link |-> TRUE]]
    /\ wire = [s \in {LoopSide} |-> <<>>]
    /\ period = 0
    /\ sent = [s \in {LoopSide} |-> <<>>]
    /\ got_hello = [s \in {LoopSide} |-> FALSE]
    /\ texts = <<>>
    /\ rx_text = [s \in {LoopSide} |-> <<>>]

\* send_text(msg): every frame the transport accepts is received by on_rx
\* before send returns
LoopSendText ==
    /\ Len(texts) < MaxSends
    /\ \E msg \in MsgArgs, n \in NonceArgs :
         LET s   == LoopSide
             pre == send_text_chunks(chat[s], aead_[s], msg, n)
             st0 == [chat |-> pre.chat, aead |-> aead_[s], tx |-> tx_[s],
                     out |-> <<>>, failed |-> pre.failed]
             st  == loop_send(st0, psk_env[s], pre.chunks, 1, Len(pre.chunks))
         IN  /\ chat' = [chat EXCEPT ![s] = st.chat]
             /\ aead_' = [aead_ EXCEPT ![s] = st.aead]
             /\ texts' = Append(texts, [from |-> s, msg |-> msg, ret |-> ~st.failed,
                                        out |-> st.out, chunks |-> Len(pre.chunks)])
    /\ UNCHANGED <<psk_env, tx_, wire, sent, got_hello, rx_text>>
    /\ UNCHANGED <<fragVars, aeadVars, kexVars, period, extVars>>

\* ChatService::stop over the loopback transport
LoopStop ==
    /\ tx_[LoopSide].started_
    /\ tx_' = [tx_ EXCEPT ![LoopSide].started_ = FALSE]
    /\ UNCHANGED <<psk_env, chat, aead_, wire, sent, got_hello, texts, rx_text>>
    /\ UNCHANGED <<fragVars, aeadVars, kexVars, period, extVars>>

\* ChatService::start again after a stop
LoopStart ==
    /\ ~tx_[LoopSide].started_
    /\ tx_' = [tx_ EXCEPT ![LoopSide].started_ = TRUE]
    /\ UNCHANGED <<psk_env, chat, aead_, wire, sent, got_hello, texts, rx_text>>
    /\ UNCHANGED <<fragVars, aeadVars, kexVars, period, extVars>>

LoopNext == LoopSendText \/ LoopStop \/ LoopStart

SpecLoop == LoopInit /\ [][LoopNext]_vars

MaxLinkUps == 2
\* number of send_text calls
MaxTexts == 1

\* daemon main: default mtu_payload
BleMtu == 100
\* BITCHAT_USER_ID of each side
UserOf(s) == IF s = "central" THEN <<97>> ELSE <<>>
\* BITCHAT_PSK of each side: unset, or the 32-byte key
PskProto == {None, Some(<<17>>)}
\* the configurations: both sides with the PSK, or the peripheral without
PskConfigs == {cfg \in [Sides -> PskProto] : cfg["central"] # None}
\* the text the application sends
TextArgs == {<<7, 200>>}

\* both sides were given the same PSK
SamePsk == psk_env["central"] # None /\ psk_env["central"] = psk_env["peripheral"]
\* each side has received the other's HELLO in this link period
Exchanged == \A s \in Sides : got_hello[s]

Init ==
    /\ FragIdle /\ AeadIdle /\ KexIdle /\ ExtIdle
    /\ psk_env \in PskConfigs
    /\ chat = [s \in Sides |->
                 NewChat(BleMtu, s = "central", psk_env[s], TRUE, UserOf(s),
                         get_na32(IF s = "central" THEN 1 ELSE 2))]
    /\ aead_ = [s \in Sides |-> EngineOf(psk_env[s])]
    /\ tx_ = [s \in Sides |->
                [name |-> "bluez", started_ |-> TRUE, mtu_ |-> BleMtu, link |-> FALSE]]
    /\ wire = [s \in Sides |-> <<>>]
    /\ period = 0
    /\ sent = [s \in Sides |-> None]
    /\ got_hello = [s \in Sides |-> FALSE]
    /\ texts = <<>>
    /\ rx_text = [s \in Sides |-> <<>>]

\* the central is connected and subscribed, the peripheral is notifying
LinkUp ==
    /\ period < MaxLinkUps
    /\ \A s \in Sides : tx_[s].started_ /\ ~tx_[s].link
    /\ tx_' = [s \in Sides |-> [tx_[s] EXCEPT !.link = TRUE]]
    /\ period' = period + 1
    /\ sent' = [s \in Sides |-> None]
    /\ got_hello' = [s \in Sides |-> FALSE]
    /\ UNCHANGED <<psk_env, chat, aead_, wire, texts, rx_text>>
    /\ UNCHANGED <<fragVars, aeadVars, kexVars, extVars>>

\* the connection drops; what was in flight is lost
LinkDown ==
    /\ \A s \in Sides : tx_[s].link
    /\ tx_' = [s \in Sides |-> [tx_[s] EXCEPT !.link = FALSE]]
    /\ wire' = [s \in Sides |-> <<>>]
    /\ UNCHANGED <<psk_env, chat, aead_, sent, got_hello, texts, rx_text>>
    /\ UNCHANGED <<fragVars, aeadVars, kexVars, period, extVars>>

\* hello thread: the loop test and ready = tx_.link_ready()
HelloPoll(s) ==
    /\ chat[s].pc = "poll"
    /\ ~chat[s].hello_stop_
    /\ chat' = [chat EXCEPT ![s].ready = (tx_[s].started_ /\ tx_[s].link),
                            ![s].pc = "body"]
    /\ UNCHANGED <<psk_env, aead_, tx_, wire, sent, got_hello, texts, rx_text>>
    /\ UNCHANGED <<fragVars, aeadVars, kexVars, period, extVars>>

\* the "new link edge" block of the hello thread
hello_edge(c, e, na) ==
    IF c.ready /\ ~c.last_ready
    THEN [chat |-> [c EXCEPT !.na32_ = na,
                             !.have_na_local_ = c.local_has_psk_,
                             !.have_na_peer_ = FALSE,
                             !.aead_on_ = FALSE,
                             !.hello_sent_ = FALSE],
          aead |-> aead_set_session(e, None)]
    ELSE [chat |-> c, aead |-> e]

\* the "link down" block of the hello thread
hello_down(c, e) ==
    IF ~c.ready
    THEN [chat |-> [c EXCEPT !.hello_sent_ = FALSE, !.aead_on_ = FALSE],
          aead |-> aead_set_session(e, None)]
    ELSE [chat |-> c, aead |-> e]

\* hello thread: the rest of the loop body (edge block, HELLO block, link
\* down block, last_ready = ready), then the 200 ms sleep
HelloBody(s) ==
    /\ chat[s].pc = "body"
    /\ \E na \in {get_na32(chat[s].na32_[1] + 2)} :
         LET r1    == hello_edge(chat[s], aead_[s], na)
             c1    == r1.chat
             bytes == encode_hello(c1.local_user_, c1.local_caps_,
                                   IF c1.local_has_psk_ THEN Some(c1.na32_) ELSE None)
             ok    == c1.ready /\ ~c1.hello_sent_ /\ bluez_send_ok(tx_[s], bytes)
             c2    == [c1 EXCEPT !.hello_sent_ = IF ok THEN TRUE ELSE @]
             r3    == hello_down(c2, r1.aead)
         IN  /\ chat' = [chat EXCEPT ![s] =
                           [r3.chat EXCEPT !.last_ready = c1.ready, !.pc = "poll"]]
             /\ aead_' = [aead_ EXCEPT ![s] = r3.aead]
             /\ wire' = IF ok
                        THEN [wire EXCEPT ![Peer(s)] =
                                Append(@, [bytes |-> bytes, kind |-> "HELLO", msg |-> <<>>,
                                           after |-> FALSE])]
                        ELSE wire
             /\ sent' = IF ok /\ sent[s] = None
                        THEN [sent EXCEPT ![s] = Some("HELLO")] ELSE sent
    /\ UNCHANGED <<psk_env, tx_, got_hello, texts, rx_text>>
    /\ UNCHANGED <<fragVars, aeadVars, kexVars, period, extVars>>

\* bus thread: the transport hands the next received frame to on_rx
Deliver(s) ==
    /\ wire[s] # <<>>
    /\ tx_[s].started_
    /\ LET m == Head(wire[s])
           r == on_rx(chat[s], aead_[s], psk_env[s], m.bytes)
       IN  /\ chat' = [chat EXCEPT ![s] = r.chat]
           /\ aead_' = [aead_ EXCEPT ![s] = r.aead]
           /\ wire' = [wire EXCEPT ![s] = Tail(@)]
           /\ got_hello' = [got_hello EXCEPT ![s] = @ \/ r.ev = "hello"]
           /\ rx_text' =
                IF r.ev \in {"plain", "authfail"}
                THEN [rx_text EXCEPT ![s] =
                        Append(@, [ok |-> (r.ev = "plain" /\ r.out = <<m.msg>>),
                                   after |-> m.after])]
                ELSE rx_text
    /\ UNCHANGED <<psk_env, tx_, sent, texts>>
    /\ UNCHANGED <<fragVars, aeadVars, kexVars, period, extVars>>

\* IPC handler: send_text(msg)
SendText(s) ==
    /\ chat["central"].next_id_ + chat["peripheral"].next_id_ - 2 < MaxTexts
    /\ \E msg \in TextArgs, n \in NonceArgs :
         LET pre == send_text_chunks(chat[s], aead_[s], msg, n)
             r   == IF pre.failed THEN [frames |-> <<>>, ret |-> FALSE]
                    ELSE bluez_send_frames(tx_[s], pre.chunks)
         IN  /\ chat' = [chat EXCEPT ![s] = pre.chat]
             /\ wire' = [wire EXCEPT ![Peer(s)] =
                           @ \o [k \in 1..Len(r.frames) |->
                                   [bytes |-> r.frames[k], kind |-> "FRAG", msg |-> msg,
                                    after |-> (SamePsk /\ Exchanged)]]]
             /\ sent' = IF r.frames # <<>> /\ sent[s] = None
                        THEN [sent EXCEPT ![s] = Some("FRAG")] ELSE sent
    /\ UNCHANGED <<psk_env, aead_, tx_, got_hello, texts, rx_text>>
    /\ UNCHANGED <<fragVars, aeadVars, kexVars, period, extVars>>

\* stop(): hello_stop_.store(true); the sleeping hello thread wakes, sees the
\* flag at the loop test and exits; join returns; tx_.stop().  The
\* connection is gone for both sides.
Stop(s) ==
    /\ tx_[s].started_
    /\ chat[s].pc = "poll"
    /\ chat' = [chat EXCEPT ![s].hello_stop_ = TRUE, ![s].pc = "done"]
    /\ tx_' = [t \in Sides |->
                 IF t = s THEN [tx_[t] EXCEPT !.started_ = FALSE, !.link = FALSE]
                 ELSE [tx_[t] EXCEPT !.link = FALSE]]
    /\ wire' = [t \in Sides |-> <<>>]
    /\ UNCHANGED <<psk_env, aead_, sent, got_hello, texts, rx_text>>
    /\ UNCHANGED <<fragVars, aeadVars, kexVars, period, extVars>>

Next ==
    \/ LinkUp
    \/ LinkDown
    \/ \E s \in Sides : HelloPoll(s)
    \/ \E s \in Sides : HelloBody(s)
    \/ \E s \in Sides : Deliver(s)
    \/ \E s \in Sides : SendText(s)
    \/ \E s \in Sides : Stop(s)

Spec == Init /\ [][Next]_vars

(***************************************************************************)
(* Claims on the protocol, checked under Spec                               *)
(***************************************************************************)
\* the hello thread of s has sent its HELLO for this link period and sleeps
HelloIdle(s) == chat[s].pc = "poll" /\ chat[s].last_ready /\ chat[s].hello_sent_

\* C4: both sides have the PSK and the link stays ready; once each side has
\* received the other's HELLO (and both hello threads have finished the
\* iteration that sent theirs, nothing being in flight), a session is
\* installed in the AEAD engine on both sides.
C4_SessionAfterExchange ==
    (/\ SamePsk
     /\ \A s \in Sides : tx_[s].link
     /\ Exchanged
     /\ \A s \in Sides : HelloIdle(s)
     /\ \A s \in Sides : wire[s] = <<>>)
        => \A s \in Sides : aead_[s].have_session_

\* C5: a text that send_text sent after the HELLO exchange, on a link that
\* stayed ready until it arrived, is opened successfully by the peer and
\* gives the text that was sent.
C5_TextOpensAfterExchange ==
    \A s \in Sides : \A i \in 1..Len(rx_text[s]) : rx_text[s][i].after => rx_text[s][i].ok

\* C6: the first frame the transport accepts after a rising edge of the link
\* is a HELLO, never a fragment of a send_text message.
C6_HelloFirst ==
    \A s \in Sides : sent[s] # None => sent[s] = Some("HELLO")

\* C7 (the stop case): after stop() has returned no session is installed in
\* the AEAD engine.
C7_NoSessionAfterStop ==
    \A s \in Sides : ~tx_[s].started_ => ~aead_[s].have_session_

(***************************************************************************)
(* HELLO specification: the protocol specification without send_text and    *)
(* stop(): the hello threads, the receive path and the link                 *)
(***************************************************************************)
HelloNext ==
    \/ LinkUp
    \/ LinkDown
    \/ \E s \in Sides : HelloPoll(s)
    \/ \E s \in Sides : HelloBody(s)
    \/ \E s \in Sides : Deliver(s)

SpecHello == Init /\ [][HelloNext]_vars

\* the frame at the head of the receive queue of s is a HELLO that parses
HelloAtHead(s) ==
    /\ wire[s] # <<>>
    /\ Len(Head(wire[s]).bytes) >= 2
    /\ Head(wire[s]).bytes[1].b = MSG_CTRL_HELLO
    /\ Head(wire[s]).bytes[2].b = HELLO_VER
    /\ parse_hello(Head(wire[s]).bytes) # None

\* the step is on_rx of s consuming the frame at the head of its queue
RxStep(s) == wire[s] # <<>> /\ wire'[s] = Tail(wire[s]) /\ tx_' = tx_

\* conditions (a), (b), (c) for the HELLO h received by s, read from the
\* state before on_rx: both sides advertise the PSK capability, the local
\* nonce exists and the HELLO carries the peer's, the engine has no session
KexConditions(s, h) ==
    /\ (chat[s].local_caps_ \div CAP_AEAD_PSK_SUPPORTED) % 2 = 1
    /\ h.has_caps /\ (h.caps \div CAP_AEAD_PSK_SUPPORTED) % 2 = 1
    /\ chat[s].have_na_local_ /\ h.has_na32
    /\ ~aead_[s].have_session_

KeyParts == 2
\* number of set_session(&k) calls
MaxSessions == 1

SeThreads == {"hello", "bus", "ipc"}
\* the piece values: 0 after sodium_memzero, 9 in key_ (the PSK), and the
\* two directional keys of session n as the engine of this side receives them
TxPart(n) == 10 * n + 1
RxPart(n) == 10 * n + 2
WholeKey(v) == [i \in 1..KeyParts |-> v]

SeIdleThread == [op |-> "idle", pc |-> 0, k |-> 0, hs |-> FALSE, key |-> <<>>]

SessInit ==
    /\ CoreIdle /\ BusIdle /\ SendIdle /\ CenIdle
    /\ se_eng = [have_session_ |-> FALSE,
                 key_tx_ |-> WholeKey(0), key_rx_ |-> WholeKey(0),
                 nonce_tx_ |-> 0, nonce_rx_ |-> 0, aead_on_ |-> FALSE, installs |-> 0]
    /\ se_thr = [t \in SeThreads |-> SeIdleThread]
    /\ se_used = [t \in SeThreads |-> None]

\* hello thread: aead_.set_session(nullptr) is called
SeClearStart ==
    /\ se_thr["hello"].op = "idle"
    /\ se_thr' = [se_thr EXCEPT !["hello"] = [SeIdleThread EXCEPT !.op = "clear"]]
    /\ UNCHANGED <<se_eng, se_used>>
    /\ UNCHANGED sessRest

\* set_session(nullptr): have_session_ = false, then the four sodium_memzero;
\* back in the hello thread, aead_on_ = false
SeClearStep ==
    /\ se_thr["hello"].op = "clear"
    /\ LET pc == se_thr["hello"].pc
       IN  /\ se_eng' =
                IF pc = 0 THEN [se_eng EXCEPT !.have_session_ = FALSE]
                ELSE IF pc <= KeyParts THEN [se_eng EXCEPT !.key_tx_[pc] = 0]
                ELSE IF pc <= 2 * KeyParts
                     THEN [se_eng EXCEPT !.key_rx_[pc - KeyParts] = 0]
                ELSE IF pc = 2 * KeyParts + 1 THEN [se_eng EXCEPT !.nonce_tx_ = 0]
                ELSE [se_eng EXCEPT !.nonce_rx_ = 0, !.aead_on_ = FALSE]
           /\ se_thr' = [se_thr EXCEPT !["hello"] =
                           IF pc = 2 * KeyParts + 2 THEN SeIdleThread
                           ELSE [@ EXCEPT !.pc = pc + 1]]
    /\ UNCHANGED se_used
    /\ UNCHANGED sessRest

\* bus thread: maybe_kex found aead_on_ false and derive_and_install calls
\* aead_.set_session(&k_local)
SeInstallStart ==
    /\ se_thr["bus"].op = "idle"
    /\ ~se_eng.aead_on_
    /\ se_eng.installs < MaxSessions
    /\ se_eng' = [se_eng EXCEPT !.installs = @ + 1]
    /\ se_thr' = [se_thr EXCEPT !["bus"] =
                    [SeIdleThread EXCEPT !.op = "install", !.k = se_eng.installs + 1]]
    /\ UNCHANGED se_used
    /\ UNCHANGED sessRest

\* set_session(&k): the four memcpy, then have_session_ = true; back in
\* derive_and_install, aead_on_ = true
SeInstallStep ==
    /\ se_thr["bus"].op = "install"
    /\ LET pc == se_thr["bus"].pc
           k  == se_thr["bus"].k
       IN  /\ se_eng' =
                IF pc < KeyParts THEN [se_eng EXCEPT !.key_tx_[pc + 1] = TxPart(k)]
                ELSE IF pc < 2 * KeyParts
                     THEN [se_eng EXCEPT !.key_rx_[pc - KeyParts + 1] = RxPart(k)]
                ELSE IF pc = 2 * KeyParts THEN [se_eng EXCEPT !.nonce_tx_ = TxPart(k)]
                ELSE IF pc = 2 * KeyParts + 1 THEN [se_eng EXCEPT !.nonce_rx_ = RxPart(k)]
                ELSE [se_eng EXCEPT !.have_session_ = TRUE, !.aead_on_ = TRUE]
           /\ se_thr' = [se_thr EXCEPT !["bus"] =
                           IF pc = 2 * KeyParts + 2 THEN SeIdleThread
                           ELSE [@ EXCEPT !.pc = pc + 1]]
    /\ UNCHANGED se_used
    /\ UNCHANGED sessRest

\* IPC thread: send_text calls aead_.seal
SeSealStart ==
    /\ se_thr["ipc"].op = "idle"
    /\ se_thr' = [se_thr EXCEPT !["ipc"] = [SeIdleThread EXCEPT !.op = "seal"]]
    /\ UNCHANGED <<se_eng, se_used>>
    /\ UNCHANGED sessRest

\* bus thread: on_rx calls aead_.open
SeOpenStart ==
    /\ se_thr["bus"].op = "idle"
    /\ se_thr' = [se_thr EXCEPT !["bus"] = [SeIdleThread EXCEPT !.op = "open"]]
    /\ UNCHANGED <<se_eng, se_used>>
    /\ UNCHANGED sessRest

\* the load of have_session_ and then the cipher reading the chosen key:
\* seal reads key_tx_ or key_, open reads key_rx_ (and key_ on its fallback)
se_use_step(t, field) ==
    LET th == se_thr[t]
    IN  IF th.pc = 0
        THEN /\ se_thr' = [se_thr EXCEPT ![t] =
                             [@ EXCEPT !.hs = se_eng.have_session_, !.pc = 1]]
             /\ UNCHANGED se_used
        ELSE LET key == IF th.hs THEN Append(th.key, se_eng[field][th.pc])
                        ELSE WholeKey(9)
             IN  IF Len(key) = KeyParts
                 THEN /\ se_used' = [se_used EXCEPT ![t] =
                                         Some([op |-> th.op, hs |-> th.hs, key |-> key])]
                      /\ se_thr' = [se_thr EXCEPT ![t] = SeIdleThread]
                 ELSE /\ se_thr' = [se_thr EXCEPT ![t] =
                                      [@ EXCEPT !.key = key, !.pc = th.pc + 1]]
                      /\ UNCHANGED se_used

SeSealStep ==
    /\ se_thr["ipc"].op = "seal"
    /\ se_use_step("ipc", "key_tx_")
    /\ UNCHANGED se_eng
    /\ UNCHANGED sessRest

SeOpenStep ==
    /\ se_thr["bus"].op = "open"
    /\ se_use_step("bus", "key_rx_")
    /\ UNCHANGED se_eng
    /\ UNCHANGED sessRest

SessNext ==
    \/ SeClearStart \/ SeClearStep
    \/ SeInstallStart \/ SeInstallStep
    \/ SeSealStart \/ SeSealStep
    \/ SeOpenStart \/ SeOpenStep

SpecSess == SessInit /\ [][SessNext]_vars

\* the key of one installed session for the direction of the call
SessionKeyOf(u) ==
    {WholeKey(IF u.op = "seal" THEN TxPart(n) ELSE RxPart(n)) : n \in 1..MaxSessions}

\* C11: set_session is atomic for seal and open on other threads: a call
\* that found the session present used a whole key of one installed
\* session, never a partially copied key nor a zeroized one.
C11_AtomicSetSession ==
    \A t \in SeThreads :
        (se_used[t] # None /\ se_used[t][1].hs) => se_used[t][1].key \in SessionKeyOf(se_used[t][1])

(***************************************************************************)
(* Bus specification: a started role engine of BluezTransport.  The loop    *)
(* thread, one calling thread (send, handover_to, list_peers) and the       *)
(* thread that calls stop() share the bus handle under bus_mu.              *)
(***************************************************************************)
\* number of calls the calling thread makes
MaxCalls == 2

BusRoles == {"central", "peripheral"}

BusInit ==
    /\ CoreIdle /\ SessIdle /\ SendIdle /\ CenIdle
    /\ \E r \in BusRoles :
         bs = [role |-> r, running_ |-> TRUE, bus |-> "open", slots |-> TRUE,
               bus_mu |-> "free", calls |-> 0, crashed |-> FALSE]
    /\ bs_pc = [loop |-> "test", caller |-> "idle", stopper |-> "idle"]

\* loop thread: while (running_.load())
LoopTest ==
    /\ ~bs.crashed /\ bs_pc["loop"] = "test"
    /\ bs_pc' = [bs_pc EXCEPT !["loop"] = IF bs.running_ THEN "lock" ELSE "done"]
    /\ UNCHANGED bs
    /\ UNCHANGED busRest

\* loop thread: std::lock_guard lk(bus_mu), then sd_bus_process until it
\* returns <= 0
LoopLock ==
    /\ ~bs.crashed /\ bs_pc["loop"] = "lock" /\ bs.bus_mu = "free"
    /\ bs' = [bs EXCEPT !.bus_mu = "loop"]
    /\ bs_pc' = [bs_pc EXCEPT !["loop"] = "process"]
    /\ UNCHANGED busRest

\* loop thread: the central leaves the scope of the guard and calls
\* sd_bus_wait; the peripheral calls sd_bus_wait inside the scope
LoopEnterWait ==
    /\ ~bs.crashed /\ bs_pc["loop"] = "process"
    /\ bs' = [bs EXCEPT !.bus_mu = IF bs.role = "central" THEN "free" ELSE @]
    /\ bs_pc' = [bs_pc EXCEPT !["loop"] = "wait"]
    /\ UNCHANGED busRest

\* loop thread: sd_bus_wait returns (timeout of 100 ms, traffic, or the bus
\* was closed); the peripheral leaves the scope of the guard, the central
\* goes on to central_pump
LoopLeaveWait ==
    /\ ~bs.crashed /\ bs_pc["loop"] = "wait"
    /\ bs' = [bs EXCEPT !.bus_mu = IF bs.role = "peripheral" THEN "free" ELSE @]
    /\ bs_pc' = [bs_pc EXCEPT !["loop"] = IF bs.role = "central" THEN "pump" ELSE "test"]
    /\ UNCHANGED busRest

\* loop thread, central: a critical section of central_pump
PumpLock ==
    /\ ~bs.crashed /\ bs_pc["loop"] = "pump" /\ bs.bus_mu = "free"
    /\ bs' = [bs EXCEPT !.bus_mu = "loop"]
    /\ bs_pc' = [bs_pc EXCEPT !["loop"] = "pump_locked"]
    /\ UNCHANGED busRest

PumpUnlock ==
    /\ ~bs.crashed /\ bs_pc["loop"] = "pump_locked"
    /\ bs' = [bs EXCEPT !.bus_mu = "free"]
    /\ bs_pc' = [bs_pc EXCEPT !["loop"] = "test"]
    /\ UNCHANGED busRest

\* calling thread: send passes its test of running_, or (central only)
\* handover_to or list_peers passes its test of impl_->bus, and goes for the
\* mutex
CallStart ==
    /\ ~bs.crashed /\ bs_pc["caller"] = "idle"
    /\ bs.calls < MaxCalls
    /\ bs.bus # "freed"
    /\ bs.role = "peripheral" => bs.running_
    /\ bs' = [bs EXCEPT !.calls = @ + 1]
    /\ bs_pc' = [bs_pc EXCEPT !["caller"] = "lock"]
    /\ UNCHANGED busRest

CallLock ==
    /\ ~bs.crashed /\ bs_pc["caller"] = "lock" /\ bs.bus_mu = "free"
    /\ bs.bus # "freed"
    /\ bs' = [bs EXCEPT !.bus_mu = "caller"]
    /\ bs_pc' = [bs_pc EXCEPT !["caller"] = "locked"]
    /\ UNCHANGED busRest

\* calling thread: the sd-bus calls of the critical section, then unlock
CallUnlock ==
    /\ ~bs.crashed /\ bs_pc["caller"] = "locked"
    /\ bs.bus # "freed"
    /\ bs' = [bs EXCEPT !.bus_mu = "free"]
    /\ bs_pc' = [bs_pc EXCEPT !["caller"] = "idle"]
    /\ UNCHANGED busRest

\* calling thread: it is at or inside its critical section and the bus
\* handle has been released by stop(): sd_bus_call_method on a freed sd_bus
\* is undefined; one outcome is that the process dies
CallAfterFree ==
    /\ ~bs.crashed /\ bs_pc["caller"] \in {"lock", "locked"}
    /\ bs.bus = "freed"
    /\ \E dies \in BOOLEAN :
         /\ bs' = [bs EXCEPT !.crashed = dies,
                             !.bus_mu = IF @ = "caller" THEN "free" ELSE @]
         /\ bs_pc' = [bs_pc EXCEPT !["caller"] = "idle"]
    /\ UNCHANGED busRest

\* stop(): running_.exchange(false)
StopCall ==
    /\ ~bs.crashed /\ bs_pc["stopper"] = "idle"
    /\ bs.running_
    /\ bs' = [bs EXCEPT !.running_ = FALSE]
    /\ bs_pc' = [bs_pc EXCEPT !["stopper"] = "lock"]
    /\ UNCHANGED busRest

\* stop_central / stop_peripheral: std::lock_guard lk(bus_mu)
StopLock ==
    /\ ~bs.crashed /\ bs_pc["stopper"] = "lock" /\ bs.bus_mu = "free"
    /\ bs' = [bs EXCEPT !.bus_mu = "stopper"]
    /\ bs_pc' = [bs_pc EXCEPT !["stopper"] = "locked"]
    /\ UNCHANGED busRest

\* the best-effort calls, sd_bus_close, and the end of the guard's scope
StopClose ==
    /\ ~bs.crashed /\ bs_pc["stopper"] = "locked"
    /\ bs' = [bs EXCEPT !.bus = "closed", !.bus_mu = "free"]
    /\ bs_pc' = [bs_pc EXCEPT !["stopper"] = "join"]
    /\ UNCHANGED busRest

\* impl_->loop.join() returns when the loop thread has exited
StopJoin ==
    /\ ~bs.crashed /\ bs_pc["stopper"] = "join"
    /\ bs_pc["loop"] = "done"
    /\ bs_pc' = [bs_pc EXCEPT !["stopper"] = "release"]
    /\ UNCHANGED bs
    /\ UNCHANGED busRest

\* unref_slot of every slot, sd_bus_flush_close_unref(bus), bus = nullptr
StopRelease ==
    /\ ~bs.crashed /\ bs_pc["stopper"] = "release"
    /\ bs' = [bs EXCEPT !.slots = FALSE, !.bus = "freed"]
    /\ bs_pc' = [bs_pc EXCEPT !["stopper"] = "reset"]
    /\ UNCHANGED busRest

\* back in BluezTransport::stop: impl_.reset() and return
StopReturn ==
    /\ ~bs.crashed /\ bs_pc["stopper"] = "reset"
    /\ bs_pc' = [bs_pc EXCEPT !["stopper"] = "returned"]
    /\ UNCHANGED bs
    /\ UNCHANGED busRest

BusLoopNext ==
    LoopTest \/ LoopLock \/ LoopEnterWait \/ LoopLeaveWait \/ PumpLock \/ PumpUnlock
BusCallNext == CallStart \/ CallLock \/ CallUnlock
BusStopNext == StopCall \/ StopLock \/ StopClose \/ StopJoin \/ StopRelease \/ StopReturn

BusNext == BusLoopNext \/ BusCallNext \/ CallAfterFree \/ BusStopNext

\* every thread that can run does run; a call that was started is finished
BusFair ==
    /\ WF_vars(BusLoopNext)
    /\ WF_vars(CallLock \/ CallUnlock)
    /\ WF_vars(StopLock \/ StopClose \/ StopJoin \/ StopRelease \/ StopReturn)

SpecBus == BusInit /\ [][BusNext]_vars /\ BusFair

\* C12: in both role engines the loop thread does not hold bus_mu while it
\* is blocked in sd_bus_wait.
C12_WaitWithoutMutex ==
    bs_pc["loop"] = "wait" => bs.bus_mu # "loop"

MaxFrame == 3
\* Settings::mtu_payload the transport is started with
SdMtu == 2

Variants == {"loopback", "central", "peripheral"}
\* the two translation units that define BluezTransport::send_peripheral_impl;
\* the build links one of them
PeripheralUnits == {"part_008", "bluez_transport_peripheral.cpp"}

SendInit ==
    /\ CoreIdle /\ SessIdle /\ BusIdle /\ CenIdle
    /\ \E v \in Variants, u \in PeripheralUnits :
         /\ v # "peripheral" => u = "part_008"
         /\ sd = [variant |-> v, unit |-> u, started |-> FALSE, running_ |-> FALSE,
                  rx_ |-> FALSE, connected |-> FALSE, subscribed |-> FALSE,
                  peer_rx_path |-> FALSE, notifying |-> FALSE, mtu_payload |-> SdMtu]
    /\ sd_last = None

\* start(settings, cb): LoopbackTransport stores the callback; BluezTransport
\* sets running_ once the role engine is up
SdStart ==
    /\ ~sd.started
    /\ sd' = IF sd.variant = "loopback"
             THEN [sd EXCEPT !.started = TRUE, !.rx_ = TRUE]
             ELSE [sd EXCEPT !.started = TRUE, !.running_ = TRUE]
    /\ UNCHANGED <<sd_last, sendRest>>

\* stop(): LoopbackTransport::stop is empty; BluezTransport::stop clears
\* running_ and tears the role engine down
SdStop ==
    /\ sd.started
    /\ sd' = IF sd.variant = "loopback"
             THEN [sd EXCEPT !.started = FALSE]
             ELSE [sd EXCEPT !.started = FALSE, !.running_ = FALSE,
                             !.connected = FALSE, !.subscribed = FALSE,
                             !.peer_rx_path = FALSE, !.notifying = FALSE]
    /\ UNCHANGED <<sd_last, sendRest>>

\* central: the Connect reply or the Connected property sets connected
SdConnected ==
    /\ sd.variant = "central" /\ sd.running_ /\ ~sd.connected
    /\ sd' = [sd EXCEPT !.connected = TRUE]
    /\ UNCHANGED <<sd_last, sendRest>>

\* central_pump, connected and not subscribed: central_find_gatt_paths fills
\* peer_rx_path, then central_enable_notify may set subscribed
SdPumpPaths ==
    /\ sd.variant = "central" /\ sd.running_ /\ sd.connected /\ ~sd.subscribed
    /\ \E found \in BOOLEAN, ok \in BOOLEAN :
         sd' = [sd EXCEPT !.peer_rx_path = @ \/ found,
                          !.subscribed = (sd.peer_rx_path \/ found) /\ ok]
    /\ UNCHANGED <<sd_last, sendRest>>

\* bluez_on_props_changed, Connected = false on the device
SdDisconnected ==
    /\ sd.variant = "central" /\ sd.running_ /\ sd.connected
    /\ sd' = [sd EXCEPT !.connected = FALSE, !.subscribed = FALSE]
    /\ UNCHANGED <<sd_last, sendRest>>

\* central_pump, not connected: the cached paths are cleared
SdPumpClear ==
    /\ sd.variant = "central" /\ sd.running_ /\ ~sd.connected /\ sd.peer_rx_path
    /\ sd' = [sd EXCEPT !.peer_rx_path = FALSE]
    /\ UNCHANGED <<sd_last, sendRest>>

\* peripheral: StartNotify / StopNotify from the central
SdNotify ==
    /\ sd.variant = "peripheral" /\ sd.running_
    /\ sd' = [sd EXCEPT !.notifying = ~@]
    /\ UNCHANGED <<sd_last, sendRest>>

\* BluezTransport::link_ready
sd_link_ready ==
    IF sd.variant = "central" THEN sd.connected /\ sd.subscribed
    ELSE IF sd.variant = "peripheral" THEN sd.notifying
    ELSE TRUE

\* central_write: tests the bus and peer_rx_path only, then WriteValue
central_write(len, ok) ==
    IF ~sd.peer_rx_path \/ len = 0 THEN [ret |-> FALSE, written |-> FALSE]
    ELSE [ret |-> ok, written |-> ok]

\* central_write_frame: a frame longer than mtu_payload is logged and sent
central_write_frame(len, ok) == central_write(len, ok)

\* send_peripheral_impl: peripheral_can_notify, then the Value signal
send_peripheral_impl(len, ok) ==
    IF ~sd.notifying \/ len = 0 THEN [ret |-> FALSE, written |-> FALSE]
    ELSE [ret |-> ok, written |-> ok]

\* peripheral_can_notify of bluez_transport_peripheral.cpp: false when impl_
\* is null or bus() is NOT null (the bus is open while the transport runs),
\* and false when notifications are off
peripheral_can_notify == ~sd.running_ /\ sd.notifying

\* peripheral_notify_value of bluez_transport_peripheral.cpp (which
\* send_peripheral_impl of that file returns): peripheral_can_notify, then
\* peripheral_send_locked emits the Value signal under bus_mu
peripheral_notify_value(len, ok) ==
    IF ~peripheral_can_notify THEN [ret |-> FALSE, written |-> FALSE]
    ELSE [ret |-> ok, written |-> ok]

\* LoopbackTransport::send: calls rx_ if it is set and returns true
loopback_send(len) == [ret |-> TRUE, written |-> sd.rx_]

\* ITransport::send(frame) of the variant; ok is the outcome of the bus call
transport_send(len, ok) ==
    IF sd.variant = "loopback" THEN loopback_send(len)
    ELSE IF ~sd.running_ \/ len = 0 THEN [ret |-> FALSE, written |-> FALSE]
    ELSE IF sd.variant = "central" THEN central_write_frame(len, ok)
    ELSE IF sd.unit = "part_008" THEN send_peripheral_impl(len, ok)
    ELSE peripheral_notify_value(len, ok)

SdSend ==
    \E len \in 0..MaxFrame, ok \in BOOLEAN :
        /\ sd_last' = Some([len |-> len, started |-> sd.started,
                            ready |-> sd_link_ready, mtu |-> sd.mtu_payload,
                            out |-> transport_send(len, ok)])
        /\ UNCHANGED <<sd, sendRest>>

SendNext ==
    \/ SdStart \/ SdStop \/ SdConnected \/ SdPumpPaths \/ SdDisconnected
    \/ SdPumpClear \/ SdNotify \/ SdSend

SpecSend == SendInit /\ [][SendNext]_vars

\* C14: for every transport variant, send returns false and transmits nothing
\* when the transport is not started, the link is not ready, or the frame is
\* longer than the configured per-fragment MTU
C14_SendRefuses ==
    sd_last # None =>
        LET u == sd_last[1]
        IN  (~u.started \/ ~u.ready \/ u.len > u.mtu)
                => (~u.out.ret /\ ~u.out.written)

\* C22: on a started peripheral, send of a non-empty frame emits the Value
\* signal and returns true if and only if notifying is true; when notifying
\* is false it emits nothing and returns false
C22_SendIffNotifying ==
    (sd_last # None /\ sd.variant = "peripheral") =>
        LET u == sd_last[1]
        IN  (u.started /\ u.len > 0)
                => ((u.out.ret <=> u.ready) /\ (u.out.written <=> u.ready))

(***************************************************************************)
(* Central specification: the connect state machine of the central role     *)
(* (bluez_transport_central.cpp, bluez_helper_central.cpp).  Every section  *)
(* of code that runs under bus_mu is one step; the unlocked stretches of    *)
(* central_pump are cut where another thread can run between them.          *)
(***************************************************************************)
\* device objects of BlueZ, named by number; 0 is the empty path or address
Devs == {1, 2}
\* reading of the steady clock when the loop thread starts
StartNow == 10000
\* the loop thread waits at most MaxTicks times
MaxTicks == 5
\* Value signals read from the bus socket and not yet dispatched
MaxQueue == 1
\* calls of handover_to
MaxHandovers == 1
\* the devices whose Device1.UUIDs hold the service UUID in the cache of
\* the object manager
SvcDevs == {1}

\* const uint64_t WAIT_USEC = 100000
WaitMs == 100
\* time one iteration of the loop thread takes: the wait alone, or the wait
\* and the blocking bus calls of the pump on a slow bus
SlowMs == 500
LoopSteps == {WaitMs, SlowMs}
\* impl_->next_connect_at_ms = now_ms + 300
HandoverDelayMs == 300
refresh_min_interval_ms == 2000
refresh_periodic_ms == 5000

\* the backoff the error reply of a Connect asks for: 5 s when the call
\* timed out or a connect is already in progress, 2 s otherwise
ClaimedBackoff(kind) == IF kind = "busy" THEN 5000 ELSE 2000

\* error names of a Connect reply, by the branch of bluez_on_connect_reply
\* they take: "busy" is NoReply, InProgress or Failed "already in progress",
\* "gone" is UnknownObject or UnknownMethod, "failed" is any other error
ReplyKinds == {"ok", "failed", "busy", "gone"}

\* uint32_t backoff_ms = 2000; ... backoff_ms = 5000;
backoff_ms_mut(kind) == 2000
backoff_ms(kind) == IF kind = "busy" THEN 5000 ELSE 2000

CenInit ==
    /\ CoreIdle /\ SessIdle /\ BusIdle /\ SendIdle
    /\ \E pa \in {0, 1} :
         ce = [dev_path |-> 0, paths |-> 0, connected |-> FALSE, subscribed |-> FALSE,
               connect_inflight |-> FALSE, services_resolved |-> FALSE,
               discover_submitted |-> FALSE, discovery_on |-> TRUE,
               refresh_req |-> FALSE, last_refresh_ms |-> 0,
               next_connect_at_ms |-> 0, peer_addr |-> pa]
    /\ ce_pc = [loop |-> "process", hand |-> "idle", addr |-> 0, fresh |-> FALSE]
    /\ \E st \in LoopSteps :
         ce_env = [known |-> {1}, pending |-> 0, q |-> <<>>, step |-> st]
    /\ ce_now = StartNow
    /\ ce_g = [h_n |-> 0, h_at |-> 0, h_ret |-> FALSE, h_old |-> 0, h_known |-> FALSE,
               ticks |-> 0, disc_re |-> FALSE, sub_new |-> FALSE,
               err_at |-> 0, err_kind |-> "ok", err_h |-> FALSE,
               old_rx |-> FALSE]

\* ---- loop thread: sd_bus_process under bus_mu, one callback per step ----

\* bluez_on_connect_reply
on_connect_reply(c, kind, now) ==
    IF kind = "ok"
    THEN [c EXCEPT !.connect_inflight = FALSE, !.connected = TRUE,
                   !.services_resolved = FALSE]
    ELSE [c EXCEPT !.connect_inflight = FALSE, !.connected = FALSE,
                   !.subscribed = FALSE,
                   !.dev_path = IF kind = "gone" THEN 0 ELSE @,
                   !.next_connect_at_ms = now + backoff_ms(kind)]

ConnectReply ==
    /\ ce_pc.loop = "process"
    /\ ce_env.pending > 0
    /\ \E kind \in ReplyKinds :
         /\ ce' = on_connect_reply(ce, kind, ce_now)
         /\ ce_g' = IF kind = "ok" THEN ce_g
                    ELSE [ce_g EXCEPT !.err_at = ce_now, !.err_kind = kind,
                                      !.err_h = FALSE]
    /\ ce_env' = [ce_env EXCEPT !.pending = @ - 1]
    /\ UNCHANGED <<ce_pc, ce_now, cenRest>>

\* bluez_on_iface_added for device d: with a peer address set, a device is
\* taken if its address matches or if the service UUID hit (which the UUID
\* discovery filter forces); it becomes dev_path if dev_path is empty
on_iface_added(c, d, svc_hit) ==
    LET has_peer == c.peer_addr # 0
        peer_ok  == has_peer /\ d = c.peer_addr
    IN  IF (peer_ok \/ svc_hit) /\ c.dev_path = 0
        THEN [c EXCEPT !.dev_path = d]
        ELSE c

EvIfaceAdded ==
    /\ ce_pc.loop = "process"
    /\ \E d \in Devs \ ce_env.known, svc_hit \in BOOLEAN :
         /\ ce' = on_iface_added(ce, d, svc_hit)
         /\ ce_env' = [ce_env EXCEPT !.known = @ \cup {d}]
         /\ ce_g' = IF ce_g.h_n > 0 /\ d = ce.peer_addr
                    THEN [ce_g EXCEPT !.h_known = TRUE] ELSE ce_g
    /\ UNCHANGED <<ce_pc, ce_now, cenRest>>

\* bluez_on_props_changed, Device1.Connected = false on dev_path
EvDisconnected ==
    /\ ce_pc.loop = "process"
    /\ ce.dev_path # 0 /\ ce.connected
    /\ ce' = [ce EXCEPT !.connected = FALSE, !.subscribed = FALSE]
    /\ UNCHANGED <<ce_pc, ce_env, ce_now, ce_g, cenRest>>

\* bluez_on_props_changed, Device1.ServicesResolved = true on dev_path
EvServicesResolved ==
    /\ ce_pc.loop = "process"
    /\ ce.dev_path # 0 /\ ce.connected /\ ~ce.services_resolved
    /\ ce' = [ce EXCEPT !.services_resolved = TRUE]
    /\ UNCHANGED <<ce_pc, ce_env, ce_now, ce_g, cenRest>>

\* the device whose notifications are enabled notifies: the signal is read
\* from the socket by whichever bus call runs next and waits for dispatch
EnvNotify ==
    /\ ce.connected /\ ce.subscribed /\ ce.paths # 0
    /\ Len(ce_env.q) < MaxQueue
    /\ ce_env' = [ce_env EXCEPT !.q = Append(@, ce.paths)]
    /\ UNCHANGED <<ce, ce_pc, ce_now, ce_g, cenRest>>

\* bluez_on_props_changed, GattCharacteristic1.Value on a characteristic of
\* device d: dev_prefix = dev_path() + "/" is a prefix of its path when
\* dev_path is that device, and is "/" when dev_path is empty
value_delivered(c, d) == c.dev_path = 0 \/ c.dev_path = d

DispatchValue ==
    /\ ce_pc.loop = "process"
    /\ ce_env.q # <<>>
    /\ LET d == Head(ce_env.q)
       IN  ce_g' = IF value_delivered(ce, d) /\ ce_g.h_ret /\ d = ce_g.h_old
                      /\ d # ce.peer_addr
                   THEN [ce_g EXCEPT !.old_rx = TRUE]
                   ELSE ce_g
    /\ ce_env' = [ce_env EXCEPT !.q = Tail(@)]
    /\ UNCHANGED <<ce, ce_pc, ce_now, cenRest>>

\* sd_bus_process returned 0: unlock, sd_bus_wait(bus, WAIT_USEC) without the
\* lock, then central_pump
\* (the history forgets a handover and an error reply once the delay they
\* ask for has passed)
LoopWait ==
    /\ ce_pc.loop = "process"
    /\ ce_now + ce_env.step <= StartNow + MaxTicks * ce_env.step
    /\ ce_now' = ce_now + ce_env.step
    /\ ce_pc' = [ce_pc EXCEPT !.loop = "pump1", !.fresh = ce_g.h_ret]
    /\ ce_g' = [ce_g EXCEPT
                   !.h_at = IF @ # 0 /\ ce_now' >= @ + HandoverDelayMs THEN 0 ELSE @,
                   !.err_at = IF @ # 0 /\ ce_now' >= @ + ClaimedBackoff(ce_g.err_kind)
                              THEN 0 ELSE @]
    /\ UNCHANGED <<ce, ce_env, cenRest>>

\* ---- loop thread: central_pump ----

\* central_cold_scan, second locked section: with a peer address set, the
\* device of that address becomes dev_path if dev_path is empty
cold_scan_adopt(c, found) ==
    IF c.peer_addr # 0 /\ c.dev_path = 0 /\ c.peer_addr \in found
    THEN [c EXCEPT !.dev_path = c.peer_addr]
    ELSE c

\* central_pump, first part: the cached paths are dropped while not
\* connected; with no device, a cold scan is due refresh_min_interval_ms
\* after the last one and reads the objects BlueZ knows
Pump1 ==
    /\ ce_pc.loop = "pump1"
    /\ LET c1   == IF ~ce.connected
                   THEN [ce EXCEPT !.paths = 0, !.discover_submitted = FALSE]
                   ELSE ce
           scan == c1.dev_path = 0
                   /\ ce_now - c1.last_refresh_ms >= refresh_min_interval_ms
       IN  ce' = IF scan
                 THEN cold_scan_adopt([c1 EXCEPT !.last_refresh_ms = ce_now],
                                      ce_env.known)
                 ELSE c1
    /\ ce_pc' = [ce_pc EXCEPT !.loop = "pump2"]
    /\ UNCHANGED <<ce_env, ce_now, ce_g, cenRest>>

\* want_connect && !dev_path().empty() && !connected() && !connect_inflight
\* and now_ms >= next_connect_at_ms
pump_wants_connect(c, now) ==
    /\ c.peer_addr # 0
    /\ c.dev_path # 0 /\ ~c.connected /\ ~c.connect_inflight
    /\ now >= c.next_connect_at_ms

Pump2 ==
    /\ ce_pc.loop = "pump2"
    /\ ce_pc' = [ce_pc EXCEPT !.loop = IF pump_wants_connect(ce, ce_now)
                                       THEN "pump3" ELSE "pump5"]
    /\ UNCHANGED <<ce, ce_env, ce_now, ce_g, cenRest>>

\* next_connect_at_ms = now_ms, then the tests at the head of central_connect
Pump3 ==
    /\ ce_pc.loop = "pump3"
    /\ ce' = [ce EXCEPT !.next_connect_at_ms = ce_now]
    /\ ce_pc' = [ce_pc EXCEPT !.loop =
                    IF ce.dev_path = 0 \/ ce.connect_inflight \/ ce.connected
                    THEN "pump5" ELSE "pump4"]
    /\ UNCHANGED <<ce_env, ce_now, ce_g, cenRest>>

\* central_connect, locked section: discovery is stopped, Connect is
\* submitted on dev_path (sd-bus refuses an empty object path) and the
\* connect is marked in flight
connect_locked(c) ==
    IF c.dev_path = 0
    THEN [c EXCEPT !.discovery_on = FALSE]
    ELSE [c EXCEPT !.discovery_on = FALSE, !.connect_inflight = TRUE]

Pump4 ==
    /\ ce_pc.loop = "pump4"
    /\ ce' = connect_locked(ce)
    /\ ce_env' = [ce_env EXCEPT !.pending = IF ce.dev_path = 0 THEN @ ELSE @ + 1]
    /\ ce_g' = IF ce.dev_path # 0 /\ ce.dev_path = ce.peer_addr
               THEN [ce_g EXCEPT !.sub_new = TRUE]
               ELSE ce_g
    /\ ce_pc' = [ce_pc EXCEPT !.loop = "pump5"]
    /\ UNCHANGED <<ce_now, cenRest>>

\* connected and not subscribed: service discovery is kicked, the remote
\* characteristics are looked up under dev_path and notifications enabled
pump_gatt(c, found, ok) ==
    IF c.connected /\ ~c.subscribed
    THEN LET c1 == IF ~c.services_resolved
                   THEN [c EXCEPT !.discover_submitted = TRUE] ELSE c
         IN  IF c.dev_path # 0 /\ found
             THEN [c1 EXCEPT !.paths = c.dev_path, !.subscribed = ok]
             ELSE c1
    ELSE c

\* discovery policy under the lock: off while a connect is in flight, on
\* otherwise (StartDiscovery may fail)
pump_discovery_mut(c, ok) ==
    [c EXCEPT !.discovery_on = IF @ THEN TRUE ELSE ok]
pump_discovery(c, ok) ==
    [c EXCEPT !.discovery_on = IF c.connect_inflight THEN FALSE
                               ELSE IF @ THEN TRUE ELSE ok]

\* refresh_req.exchange(false); a refresh is done on request or when
\* refresh_periodic_ms have passed, and sets last_refresh_ms
pump_refresh(c, now) ==
    IF c.refresh_req \/ now - c.last_refresh_ms >= refresh_periodic_ms
    THEN [c EXCEPT !.refresh_req = FALSE, !.last_refresh_ms = now]
    ELSE c

\* central_pump from the test of connected() && !subscribed() to its end
Pump5 ==
    /\ ce_pc.loop = "pump5"
    /\ \E found \in BOOLEAN, ok \in BOOLEAN, dok \in BOOLEAN :
         ce' = pump_refresh(pump_discovery(pump_gatt(ce, found, ok), dok), ce_now)
    /\ ce_pc' = [ce_pc EXCEPT !.loop = "process"]
    /\ ce_g' = [ce_g EXCEPT
                   !.disc_re = @ \/ (ce'.discovery_on /\ ce_g.h_n > 0),
                   !.ticks = IF ce_pc.fresh /\ @ < 2 THEN @ + 1 ELSE @]
    /\ UNCHANGED <<ce_env, ce_now, cenRest>>

\* ---- calling thread: handover_to(addr) ----

\* handover_to, critical section: discovery stopped, the connect slot
\* cancelled, Disconnect on the old device, every cached path and flag
\* reset, the next connect scheduled, the new peer set, a refresh requested
handover_locked_mut(c, addr, now) ==
    [c EXCEPT !.discovery_on = FALSE, !.connect_inflight = FALSE,
              !.paths = 0, !.dev_path = 0,
              !.connected = FALSE, !.subscribed = FALSE,
              !.discover_submitted = FALSE,
              !.next_connect_at_ms = now + HandoverDelayMs,
              !.peer_addr = addr, !.refresh_req = TRUE, !.last_refresh_ms = 0]
handover_locked(c, addr, now) ==
    [c EXCEPT !.discovery_on = FALSE, !.connect_inflight = FALSE,
              !.paths = 0, !.dev_path = 0,
              !.connected = FALSE, !.subscribed = FALSE,
              !.services_resolved = FALSE, !.discover_submitted = FALSE,
              !.next_connect_at_ms = now + HandoverDelayMs,
              !.peer_addr = addr, !.refresh_req = TRUE, !.last_refresh_ms = 0]

\* unref_slot(connect_call_slot) when a connect is in flight: the pending
\* call loses its callback
handover_pending_mut(c, pending) == pending
handover_pending(c, pending) == IF c.connect_inflight THEN pending - 1 ELSE pending

HandoverCrit ==
    /\ ce_pc.hand = "idle"
    /\ ce_g.h_n < MaxHandovers
    /\ \E addr \in Devs \cup {0} :
         /\ ce' = handover_locked(ce, addr, ce_now)
         /\ ce_env' = [ce_env EXCEPT !.pending = handover_pending(ce, @)]
         /\ ce_pc' = [ce_pc EXCEPT !.hand = "restart", !.addr = addr]
         /\ ce_g' = [ce_g EXCEPT !.h_n = @ + 1, !.h_at = ce_now, !.h_ret = FALSE,
                                 !.h_old = ce.dev_path,
                                 !.h_known = addr \in ce_env.known,
                                 !.ticks = 0, !.disc_re = FALSE, !.sub_new = FALSE,
                                 !.err_h = TRUE, !.old_rx = FALSE]
    /\ UNCHANGED <<ce_now, cenRest>>

\* central_set_discovery_filter and central_start_discovery, results
\* ignored; handover_to returns true
HandoverRestart ==
    /\ ce_pc.hand = "restart"
    /\ \E ok \in BOOLEAN :
         LET on == ce.discovery_on \/ ok
         IN  /\ ce' = [ce EXCEPT !.discovery_on = on]
             /\ ce_g' = [ce_g EXCEPT !.h_ret = TRUE, !.disc_re = @ \/ on]
    /\ ce_pc' = [ce_pc EXCEPT !.hand = "idle"]
    /\ UNCHANGED <<ce_env, ce_now, cenRest>>

CenLoopNext ==
    \/ ConnectReply \/ EvIfaceAdded \/ EvDisconnected \/ EvServicesResolved
    \/ DispatchValue \/ LoopWait
    \/ Pump1 \/ Pump2 \/ Pump3 \/ Pump4 \/ Pump5

CenNext == CenLoopNext \/ EnvNotify \/ HandoverCrit \/ HandoverRestart

SpecCentral == CenInit /\ [][CenNext]_vars

\* a Connect is submitted: connect_inflight is set only after the submit
ConnectSubmitted == ~ce.connect_inflight /\ ce'.connect_inflight

\* C15: the central submits an asynchronous Connect only with dev_path
\* non-empty, connected false, no connect in flight, now >= next_connect_at_ms
\* and peer_address set; the submit stops discovery and marks the connect in
\* flight, and at most one Connect is outstanding at any time
C15_ConnectGuarded ==
    [][/\ ConnectSubmitted =>
            /\ ce.dev_path # 0 /\ ~ce.connected /\ ~ce.connect_inflight
            /\ ce_now >= ce.next_connect_at_ms
            /\ ce.peer_addr # 0
            /\ ~ce'.discovery_on /\ ce'.connect_inflight
            /\ ce_env'.pending = 1
       /\ ce_env'.pending <= 1]_vars

C15_Witness ==
    /\ ce_pc.loop = "pump5"
    /\ ce.connect_inflight /\ ce_env.pending = 1 /\ ~ce.discovery_on
    /\ ce.dev_path # 0 /\ ce.dev_path = ce.peer_addr

\* an error reply to Connect has just been handled
ErrorReplied ==
    /\ ce_env'.pending < ce_env.pending
    /\ ce_g'.err_at = ce_now /\ ~ce_g'.err_h

\* C16 as stated: after an error reply to Connect, connected, subscribed and
\* connect-in-flight are false, and no further Connect is submitted until the
\* backoff (5 s for NoReply, InProgress, "already in progress"; 2 s otherwise)
\* has elapsed since the reply
C16_BackoffAfterError ==
    [][/\ ErrorReplied =>
            ~ce'.connected /\ ~ce'.subscribed /\ ~ce'.connect_inflight
       /\ ConnectSubmitted =>
            \/ ce_g.err_at = 0
            \/ ce_now >= ce_g.err_at + ClaimedBackoff(ce_g.err_kind)]_vars

\* C16 amended: the same, unless handover_to has been called since the
\* error reply (it schedules the next connect 300 ms out)
C16_BackoffUnlessHandover ==
    [][/\ ErrorReplied =>
            ~ce'.connected /\ ~ce'.subscribed /\ ~ce'.connect_inflight
       /\ ConnectSubmitted =>
            \/ ce_g.err_at = 0
            \/ ce_now >= ce_g.err_at + ClaimedBackoff(ce_g.err_kind)
            \/ ce_g.err_h]_vars

\* a Connect is in flight that was submitted once the backoff of an earlier
\* error reply had passed, with no handover at all
C16_Witness ==
    /\ ce.connect_inflight
    /\ ce_g.err_kind # "ok" /\ ce_g.err_at = 0
    /\ ce_g.h_n = 0

\* the state the critical section of handover_to(addr) leaves
HandoverState(c, addr) ==
    /\ ~c.connect_inflight
    /\ c.dev_path = 0 /\ c.paths = 0
    /\ ~c.connected /\ ~c.subscribed
    /\ ~c.services_resolved /\ ~c.discover_submitted
    /\ c.peer_addr = addr
    /\ c.refresh_req

HandoverReturns == ce_pc.hand = "restart" /\ ce_pc'.hand = "idle"

\* C17 as stated: when handover_to(address) returns successfully, no connect
\* is in flight, dev_path and the cached paths are empty, the flags are
\* false, peer_address is address, a refresh is requested, and discovery has
\* been restarted
C17_HandoverPostState ==
    [][HandoverReturns =>
            HandoverState(ce', ce_pc.addr) /\ ce'.discovery_on]_vars

\* C17 amended: that state holds when handover_to leaves its critical
\* section, with discovery stopped and the next connect 300 ms out; at the
\* return peer_address is address
C17_HandoverCriticalSection ==
    [][/\ (ce_pc.hand = "idle" /\ ce_pc'.hand = "restart") =>
            /\ HandoverState(ce', ce_pc'.addr)
            /\ ~ce'.discovery_on
            /\ ce'.next_connect_at_ms = ce_now + HandoverDelayMs
       /\ HandoverReturns => ce'.peer_addr = ce_pc.addr]_vars

\* handover_to has left its critical section, away from a device that had
\* been adopted, to another address
C17_Witness ==
    /\ ce_pc.hand = "restart"
    /\ ce_g.h_old # 0 /\ ce_g.h_old # ce_pc.addr
    /\ HandoverState(ce, ce_pc.addr)

\* C18: after handover_to(new address) has returned, no notification value
\* of the previous device reaches on_frame and link_ready is not true on the
\* previous device
C18_PreviousLinkUnused ==
    ce_g.h_ret =>
        /\ ~ce_g.old_rx
        /\ ~(ce.connected /\ ce.subscribed /\ ce.dev_path = ce_g.h_old
               /\ ce.dev_path # ce.peer_addr)

\* C19: after handover_to has returned, no Connect is submitted earlier than
\* 300 ms after the handover
C19_ConnectAfterDelay ==
    [][(ConnectSubmitted /\ ce_g.h_ret) =>
            \/ ce_g.h_at = 0
            \/ ce_now >= ce_g.h_at + HandoverDelayMs]_vars

\* C20: if BlueZ knows the device of the new address, then two pump ticks
\* after handover_to returned discovery has been re-enabled, the device has
\* been adopted and a Connect to it has been submitted
C20_WithinTwoTicks ==
    (ce_g.h_ret /\ ce_g.ticks = 2 /\ ce_g.h_known) =>
        ce_g.disc_re /\ ce_g.sub_new

(***************************************************************************)
(* Claims on the hello thread and on_rx, checked under Spec                 *)
(***************************************************************************)
\* a HELLO of s was accepted by its transport in the current link period: it
\* is in flight to the peer or the peer has received it
HelloSentThisPeriod(s) ==
    \/ got_hello[Peer(s)]
    \/ \E i \in 1..Len(wire[Peer(s)]) : wire[Peer(s)][i].kind = "HELLO"

\* C21: in every period of link_ready the hello thread sends a HELLO at each
\* poll until one send succeeds, however short the time the link was down
\* before: when the thread samples link_ready true and sends nothing at this
\* poll (no rising edge is seen, last_ready being true, and hello_sent is
\* set), a HELLO of this link period has been accepted by the transport
C21_HelloEveryPeriod ==
    [][\A s \in Sides :
         (/\ chat[s].pc = "poll" /\ chat'[s].pc = "body"
          /\ chat'[s].ready
          /\ chat[s].last_ready /\ chat[s].hello_sent_) => HelloSentThisPeriod(s)]_vars

(***************************************************************************)
(* Receive specification: one ChatService whose transport hands it frames   *)
(* a peer may send (on_rx of part_009 and of chat_service.cpp), while the   *)
(* IPC thread switches tail on and off.  Here wire holds the frame that     *)
(* has arrived and is not yet handed to on_rx, period counts the frames     *)
(* that arrived, texts holds one entry for the last on_rx call and rx_text  *)
(* the lines handed to the UI sink.                                         *)
(***************************************************************************)
\* number of frames that arrive
MaxRx == 3
\* bytes that follow the 0x01 0x01 prefix of a HELLO-prefixed frame
MaxTail == 4
\* the text of the message that arrives in fragments
RxText == <<7, 8>>

\* the side that receives
R == "central"
\* the two translation units that define ChatService::on_rx; the build
\* links one of them
RxUnits == {"part_009", "chat_service.cpp"}

\* frames that start with MSG_CTRL_HELLO, HELLO_VER
HelloFrames ==
    {WireBytes(<<MSG_CTRL_HELLO, HELLO_VER>> \o t) : t \in SeqsUpTo(Byte, MaxTail)}

\* the two fragments of RxText as the peer's send_text makes them with the
\* key psk (the last one carries FLAG_FINAL: it starts with 0x01 0x01)
MsgFrames(psk) ==
    LET sealed_text == aead_seal(EngineOf(psk), RxText, AAD, 5)
        chunks == make_chunks(1, sealed_text, (Len(sealed_text) + 1) \div 2)
    IN  {serialize(chunks[k]) : k \in 1..Len(chunks)}

\* a one-fragment message that was not sealed
RawFrames ==
    LET chunks == make_chunks(2, WireBytes(<<0>>), 1)
    IN  {serialize(chunks[k]) : k \in 1..Len(chunks)}

RxFrames(psk) == HelloFrames \cup MsgFrames(psk) \cup RawFrames

\* the frame starts with MSG_CTRL_HELLO, HELLO_VER
hello_prefixed(f) == Len(f) >= 2 /\ f[1].b = MSG_CTRL_HELLO /\ f[2].b = HELLO_VER

\* the "parse -> reassemble -> aead.open" part of on_rx
rx_fragment(c, e, f) ==
    LET ch == parse(f)
    IN  IF ch = None
        THEN [chat |-> c, aead |-> e, out |-> <<>>, ev |-> "invalid"]
        ELSE LET fr == feed(c.rx_, ch[1])
                 c2 == [c EXCEPT !.rx_ = fr.map]
             IN  IF fr.out = None
                 THEN [chat |-> c2, aead |-> e, out |-> <<>>, ev |-> "partial"]
                 ELSE LET o == aead_open(e, fr.out[1], AAD)
                      IN  IF ~o.ok
                          THEN [chat |-> c2, aead |-> e, out |-> <<>>, ev |-> "authfail"]
                          ELSE [chat |-> c2, aead |-> e, out |-> <<o.out>>, ev |-> "plain"]

\* ChatService::on_rx of chat_service.cpp: a malformed HELLO is dropped, the
\* peer fields are stored without session derivation, and with tail off
\* every other frame is ignored before it is parsed
on_rx_chat_service(c, e, f) ==
    IF hello_prefixed(f)
    THEN LET h == parse_hello(f)
         IN  IF h = None
             THEN [chat |-> c, aead |-> e, out |-> <<>>, ev |-> "malformed"]
             ELSE [chat |-> [c EXCEPT
                               !.peer_user_ = IF h[1].user_id # <<>> THEN h[1].user_id ELSE @,
                               !.peer_caps_ = IF h[1].has_caps THEN h[1].caps ELSE @,
                               !.peer_na32_ = IF h[1].has_na32 THEN h[1].na32 ELSE @],
                   aead |-> e, out |-> <<>>, ev |-> "hello"]
    ELSE IF ~c.tail_enabled_
    THEN [chat |-> c, aead |-> e, out |-> <<>>, ev |-> "tailoff"]
    ELSE rx_fragment(c, e, f)

\* on_rx of the unit the build linked, and the LOG_INFO("[RECV] ...") that
\* hands the plaintext to the UI sink: in part_009 behind tail_enabled_
rx_call_mut(c, e, psk, f) ==
    LET r == on_rx_chat_service(c, e, f)
    IN  [chat |-> r.chat, aead |-> r.aead, ev |-> r.ev,
         shown |-> IF r.ev = "plain" /\ c.tail_enabled_ THEN r.out ELSE <<>>]
rx_call(c, e, psk, f) ==
    LET r == IF c.unit = "part_009" THEN on_rx(c, e, psk, f)
             ELSE on_rx_chat_service(c, e, f)
    IN  [chat |-> r.chat, aead |-> r.aead, ev |-> r.ev,
         shown |-> IF r.ev = "plain" /\ c.tail_enabled_ THEN r.out ELSE <<>>]

RxInit ==
    /\ FragIdle /\ AeadIdle /\ KexIdle /\ ExtIdle
    /\ \E psk \in PskProto, u \in RxUnits :
         /\ psk_env = [s \in {R} |-> psk]
         /\ chat = [s \in {R} |->
                      [tail_enabled_ |-> TRUE, unit |-> u]
                        @@ NewChat(BleMtu, TRUE, psk, TRUE, <<>>, get_na32(1))]
         /\ aead_ = [s \in {R} |-> EngineOf(psk)]
    /\ tx_ = << >> /\ sent = << >> /\ got_hello = << >>
    /\ wire = [s \in {R} |-> <<>>]
    /\ period = 0
    /\ texts = <<>>
    /\ rx_text = [s \in {R} |-> <<>>]

\* the transport receives a frame of the peer
RxArrive ==
    /\ period < MaxRx
    /\ wire[R] = <<>>
    /\ \E f \in RxFrames(psk_env[R]) : wire' = [wire EXCEPT ![R] = <<f>>]
    /\ period' = period + 1
    /\ UNCHANGED <<psk_env, chat, aead_, tx_, sent, got_hello, texts, rx_text>>
    /\ UNCHANGED <<fragVars, aeadVars, kexVars, extVars>>

\* bus thread: the transport hands the frame to on_rx
RxDeliver ==
    /\ wire[R] # <<>>
    /\ LET f == Head(wire[R])
           r == rx_call(chat[R], aead_[R], psk_env[R], f)
       IN  /\ chat' = [chat EXCEPT ![R] = r.chat]
           /\ aead_' = [aead_ EXCEPT ![R] = r.aead]
           /\ texts' = <<[bytes |-> f, ev |-> r.ev, tail |-> chat[R].tail_enabled_,
                          shown |-> r.shown # <<>>]>>
           /\ rx_text' = [rx_text EXCEPT ![R] = @ \o r.shown]
    /\ wire' = [wire EXCEPT ![R] = Tail(@)]
    /\ UNCHANGED <<psk_env, tx_, sent, got_hello, period>>
    /\ UNCHANGED <<fragVars, aeadVars, kexVars, extVars>>

\* IPC thread: set_tail(on)
SetTail ==
    /\ \E on \in BOOLEAN :
         /\ on # chat[R].tail_enabled_
         /\ chat' = [chat EXCEPT ![R].tail_enabled_ = on]
    /\ UNCHANGED <<psk_env, aead_, tx_, wire, sent, got_hello, period, texts, rx_text>>
    /\ UNCHANGED <<fragVars, aeadVars, kexVars, extVars>>

RxNext == RxArrive \/ RxDeliver \/ SetTail

SpecRx == RxInit /\ [][RxNext]_vars

\* the step is on_rx consuming the frame that arrived
RxCall == wire[R] # <<>> /\ wire'[R] = Tail(wire[R])

\* the reassembler, the peer fields and the engine are as before the call
RxUntouched == chat'[R] = chat[R] /\ aead_'[R] = aead_[R] /\ rx_text' = rx_text

RECURSIVE tlvs_exact(_, _)
tlvs_exact(buf, i) ==
    \/ i = Len(buf)
    \/ /\ i + 3 <= Len(buf)
       /\ LET L == buf[i + 2].b * 256 + buf[i + 3].b
          IN  i + 3 + L <= Len(buf) /\ tlvs_exact(buf, i + 3 + L)

\* C24: parse_hello accepts a frame only if it starts with 0x01 0x01 and its
\* TLVs consume exactly the input length: a frame with a TLV that overruns
\* it, or with trailing bytes that are no complete TLV, is rejected
C24_ExactConsumption ==
    (texts # <<>> /\ texts[1].ev = "hello")
        => hello_prefixed(texts[1].bytes) /\ tlvs_exact(texts[1].bytes, 2)

(***************************************************************************)
(* Claims on device adoption and discovery, checked under SpecCentral       *)
(***************************************************************************)
\* the step is bluez_on_iface_added for a device BlueZ did not know
IfaceAdded == ce_env'.known # ce_env.known

\* C25: an InterfacesAdded signal changes dev_path only when dev_path is
\* empty and, with a peer address configured, only to the device of that
\* address: a device with another address is never adopted
C25_IfaceAddedAdoptsPeer ==
    [][(IfaceAdded /\ ce'.dev_path # ce.dev_path)
          => /\ ce.dev_path = 0
             /\ ce.peer_addr # 0 => ce'.dev_path = ce.peer_addr]_vars

\* the step is the first part of central_pump with a cold scan in it
ColdScan ==
    /\ ce_pc.loop = "pump1" /\ ce_pc'.loop = "pump2"
    /\ ce.dev_path = 0
    /\ ce_now - ce.last_refresh_ms >= refresh_min_interval_ms

\* the step is the last part of central_pump, with the candidate refresh
PumpEnd == ce_pc.loop = "pump5" /\ ce_pc'.loop = "process"

\* C26: a cold scan adopts the device of the peer address if one is
\* configured and BlueZ knows it, and otherwise, with no peer address, a
\* known device that carries the service UUID; a candidate refresh never
\* changes dev_path
C26_ColdScanAdopts ==
    [][/\ ColdScan =>
            IF ce.peer_addr # 0
            THEN ce'.dev_path = (IF ce.peer_addr \in ce_env.known
                                 THEN ce.peer_addr ELSE 0)
            ELSE (SvcDevs \cap ce_env.known # {})
                    => ce'.dev_path \in SvcDevs \cap ce_env.known
       /\ PumpEnd => ce'.dev_path = ce.dev_path]_vars

C28_TargetStaysCleared ==
    (ce_g.h_n > 0 /\ ce_pc.addr = 0)
        => /\ ce.dev_path = 0
           /\ ~ce.connect_inflight
           /\ ~(ce.connected /\ ce.subscribed)

(***************************************************************************)
(* Text specification: one send_text call at a time, its for loop cut at    *)
(* each tx_.send, whose outcome the transport decides (the link can drop    *)
(* and a bus call can fail in the middle of a message).  Here texts holds   *)
(* the call in progress or the last one, period counts the calls.           *)
(***************************************************************************)
\* number of send_text calls
MaxTextCalls == 2
\* mtu_payload the service is constructed with: no room for a payload, room
\* for one byte, the default
TextMtus == {HDR_SIZE, HDR_SIZE + 1, BleMtu}
\* the texts the application sends
TextMsgs == {<<>>, <<7>>, <<7, 8, 9>>}

\* one iteration of the for loop of send_text on the call t: serialize,
\* tx_.send (ok is what it returns), return false at the first failure and
\* true after the last chunk
send_text_step_mut(t, ok) ==
    LET frame == serialize(t.chunks[t.k])
    IN  IF frame = <<>> /\ t.chunks[t.k].hdr.len # 0
        THEN [t EXCEPT !.ret = Some(FALSE)]
        ELSE [t EXCEPT !.sends = Append(@, ok),
                       !.accepted = IF ok THEN Append(@, frame) ELSE @,
                       !.k = @ + 1,
                       !.ret = IF t.k = Len(t.chunks) THEN Some(ok) ELSE None]
send_text_step(t, ok) ==
    LET frame == serialize(t.chunks[t.k])
    IN  IF frame = <<>> /\ t.chunks[t.k].hdr.len # 0
        THEN [t EXCEPT !.ret = Some(FALSE)]
        ELSE IF ~ok
        THEN [t EXCEPT !.sends = Append(@, ok), !.ret = Some(FALSE)]
        ELSE [t EXCEPT !.sends = Append(@, ok), !.accepted = Append(@, frame),
                       !.k = @ + 1,
                       !.ret = IF t.k = Len(t.chunks) THEN Some(TRUE) ELSE None]

TextInit ==
    /\ FragIdle /\ AeadIdle /\ KexIdle /\ ExtIdle
    /\ \E psk \in PskProto, mtu \in TextMtus :
         /\ psk_env = [s \in {R} |-> psk]
         /\ chat = [s \in {R} |-> NewChat(mtu, TRUE, psk, TRUE, <<>>, get_na32(1))]
         /\ aead_ = [s \in {R} |-> EngineOf(psk)]
    /\ tx_ = << >> /\ sent = << >> /\ got_hello = << >>
    /\ wire = << >> /\ rx_text = << >>
    /\ period = 0
    /\ texts = <<>>

\* IPC handler: send_text(msg) is called; steps 1 and 2
TextCall ==
    /\ period < MaxTextCalls
    /\ IF texts = <<>> THEN TRUE ELSE texts[1].ret # None
    /\ \E msg \in TextMsgs, n \in NonceArgs :
         LET pre == send_text_chunks(chat[R], aead_[R], msg, n)
         IN  /\ chat' = [chat EXCEPT ![R] = pre.chat]
             /\ texts' = <<[msg |-> msg, chunks |-> pre.chunks, k |-> 1,
                            sends |-> <<>>, accepted |-> <<>>,
                            ret |-> IF pre.failed THEN Some(FALSE)
                                    ELSE IF pre.chunks = <<>> THEN Some(TRUE)
                                    ELSE None]>>
    /\ period' = period + 1
    /\ UNCHANGED <<psk_env, aead_, tx_, wire, sent, got_hello, rx_text>>
    /\ UNCHANGED <<fragVars, aeadVars, kexVars, extVars>>

\* step 3: the next iteration of the loop
TextFrame ==
    /\ texts # <<>> /\ texts[1].ret = None
    /\ \E ok \in BOOLEAN : texts' = <<send_text_step(texts[1], ok)>>
    /\ UNCHANGED <<psk_env, chat, aead_, tx_, wire, sent, got_hello, rx_text, period>>
    /\ UNCHANGED <<fragVars, aeadVars, kexVars, extVars>>

TextNext == TextCall \/ TextFrame

SpecText == TextInit /\ [][TextNext]_vars

\* C29: send_text returns true only if tx_.send accepted every fragment; at
\* the first fragment the transport refuses it returns false, having sent
\* the fragments before it once each, in order, and none after it
C29_StopsAtFirstFailure ==
    texts # <<>> =>
        LET t == texts[1]
            n == Len(t.sends)
        IN  /\ n <= Len(t.chunks)
            /\ \A i \in 1..(n - 1) : t.sends[i]
            /\ t.accepted = [i \in 1..Len(t.accepted) |-> serialize(t.chunks[i])]
            /\ Len(t.accepted) = Cardinality({i \in 1..n : t.sends[i]})
            /\ t.ret = Some(TRUE) =>
                  n = Len(t.chunks) /\ \A i \in 1..n : t.sends[i]
            /\ (n > 0 /\ ~t.sends[n]) => t.ret = Some(FALSE)

\* send_text returned false at its third fragment, after two were accepted
C29_Witness ==
    /\ texts # <<>>
    /\ texts[1].ret = Some(FALSE)
    /\ Len(texts[1].chunks) > 3
    /\ texts[1].sends = <<TRUE, TRUE, FALSE>>

(***************************************************************************)
(* Claim on the tail gate, checked under SpecRx                             *)
(***************************************************************************)
\* the frame is the fragment that completes a message of the reassembler
Completes(c, f) ==
    LET ch == parse(f)
    IN  IF ch = None THEN FALSE ELSE feed(c.rx_, ch[1]).out # None

\* C30: a message is handed to the UI sink only if its last missing fragment
\* arrived, AEAD open succeeded and tail is on; a message whose last missing
\* fragment arrives while tail is off is dropped: nothing is handed to the
\* sink and the reassembler keeps no state of that message
C30_TailGate ==
    [][RxCall =>
          LET f  == Head(wire[R])
              c  == chat[R]
              ch == parse(f)
              asHello == /\ c.ctrl_hello_enabled_ /\ hello_prefixed(f)
                         /\ parse_hello(f) # None
          IN  /\ rx_text'[R] # rx_text[R] =>
                    /\ Completes(c, f) /\ c.tail_enabled_
                    /\ aead_open(aead_[R], feed(c.rx_, ch[1]).out[1], AAD).ok
              /\ (Completes(c, f) /\ ~asHello /\ ~c.tail_enabled_) =>
                    /\ rx_text' = rx_text
                    /\ ch[1].hdr.msg_id \notin DOMAIN chat'[R].rx_]_vars

(***************************************************************************)
(* Start specification: BluezTransport::start and BluezTransport::stop     *)
(* (the facade of loopback_transport.cpp / bluez_transport.cpp)            *)
(***************************************************************************)
\* start and stop calls made in one run
MaxStartCalls == 4
\* Settings::mtu_payload values passed to start
StartMtus == {50, 100}
\* values of the BITCHAT_MTU_PAYLOAD environment variable (None: unset)
StartEnvs == {None, Some(19), Some(20)}
\* receive callbacks passed to start, named by number; 0 is the empty one
StartCbs == {1, 2}

\* BluezTransport::start(s, cb): returns true at once when running_;
\* otherwise stores the settings and the callback, creates impl_, applies the
\* environment override and runs the role engine's start (ok is its outcome:
\* it opens the bus connection and spawns the loop thread)
bt_start_mut(t, s, cb, env, ok) ==
    LET mtu == IF env # None /\ env[1] >= 20 /\ env[1] <= 244 THEN env[1] ELSE s
        t1  == [t EXCEPT !.settings_ = mtu, !.on_frame_ = cb, !.impl_ = TRUE]
    IN  IF ok THEN [t |-> [t1 EXCEPT !.running_ = TRUE, !.bus = @ + 1,
                                     !.loops = @ + 1],
                    ret |-> TRUE]
        ELSE [t |-> [t1 EXCEPT !.impl_ = FALSE], ret |-> FALSE]

bt_start(t, s, cb, env, ok) ==
    IF t.running_ THEN [t |-> t, ret |-> TRUE]
    ELSE LET mtu == IF env # None /\ env[1] >= 20 /\ env[1] <= 244
                    THEN env[1] ELSE s
             t1  == [t EXCEPT !.settings_ = mtu, !.on_frame_ = cb,
                              !.impl_ = TRUE]
         IN  IF ok THEN [t |-> [t1 EXCEPT !.running_ = TRUE, !.bus = @ + 1,
                                          !.loops = @ + 1],
                         ret |-> TRUE]
             ELSE [t |-> [t1 EXCEPT !.impl_ = FALSE], ret |-> FALSE]

\* BluezTransport::stop(): running_.exchange(false); when it was running the
\* role engine's stop joins the loop thread and closes the bus, then impl_
\* is reset
bt_stop(t) ==
    IF ~t.running_ \/ ~t.impl_ THEN [t EXCEPT !.running_ = FALSE]
    ELSE [t EXCEPT !.running_ = FALSE, !.bus = 0, !.loops = 0, !.impl_ = FALSE]

StartInit ==
    /\ CoreIdle /\ SessIdle /\ BusIdle /\ CenIdle
    /\ sd = [running_ |-> FALSE, settings_ |-> 0, on_frame_ |-> 0,
             impl_ |-> FALSE, bus |-> 0, loops |-> 0, calls |-> 0]
    /\ sd_last = None

StCallStart ==
    /\ sd.calls < MaxStartCalls
    /\ \E s \in StartMtus, cb \in StartCbs, env \in StartEnvs, ok \in BOOLEAN :
         LET r == bt_start(sd, s, cb, env, ok)
         IN  /\ sd' = [r.t EXCEPT !.calls = @ + 1]
             /\ sd_last' = Some([op |-> "start", n |-> sd.calls + 1,
                                 was_running |-> sd.running_, cb |-> cb,
                                 ok |-> ok, ret |-> r.ret,
                                 after_stop |-> sd_last # None
                                                /\ sd_last[1].op = "stop"])
    /\ UNCHANGED sendRest

StCallStop ==
    /\ sd.calls < MaxStartCalls
    /\ sd' = [bt_stop(sd) EXCEPT !.calls = @ + 1]
    /\ sd_last' = Some([op |-> "stop", n |-> sd.calls + 1,
                        was_running |-> sd.running_, cb |-> 0, ok |-> TRUE,
                        ret |-> TRUE, after_stop |-> FALSE])
    /\ UNCHANGED sendRest

StartNext == StCallStart \/ StCallStop

SpecStart == StartInit /\ [][StartNext]_vars

\* a step that is one call of start
StartStep == sd_last' # sd_last /\ sd_last'[1].op = "start"

FeedIds == {1, 2}
\* the largest total (and seq) a fragment declares
MaxTotal == 3
\* fragment payloads: one byte that names the send_text call it comes from
FeedPayloads == {<<1>>, <<2>>}

\* fragments whose len field is not the payload's length are tried with one
\* payload only
BadLenSkipped ==
    { Chunk(Header(f, id, seq, total, 2), <<2>>) :
        f \in {0, FLAG_FINAL}, id \in FeedIds, seq \in 0..(MaxTotal - 1),
        total \in 0..MaxTotal }

\* the fragments the link can hand to feed, those feed rejects included
FeedChunks ==
    { Chunk(Header(IF seq + 1 = total THEN FLAG_FINAL ELSE 0, id, seq, total, len), p) :
        id \in FeedIds, seq \in 0..(MaxTotal - 1), total \in 0..MaxTotal,
        len \in {1, 2}, p \in FeedPayloads } \ BadLenSkipped

FeedInit ==
    /\ AeadIdle /\ KexIdle /\ SvcIdle /\ ExtIdle
    /\ fr_msg_id = 0 /\ fr_payload = <<>> /\ fr_mtu = 0 /\ fr_chunks = None
    /\ map_ = << >>
    /\ fr_feeds = <<>>
    /\ fr_rets = <<>>

\* st.total of the entry of msg_id id, 0 when map_ has none
total_of(map, id) == IF id \in DOMAIN map THEN map[id].total ELSE 0

\* one call of feed; fr_feeds keeps the last argument and the total the map
\* held for its msg_id before the call, fr_rets the last result
FeedAny ==
    /\ \E c \in FeedChunks :
         LET r == feed(map_, c)
         IN  /\ map_' = r.map
             /\ fr_feeds' = <<c, total_of(map_, c.hdr.msg_id)>>
             /\ fr_rets' = <<r.out>>
    /\ UNCHANGED <<fr_msg_id, fr_payload, fr_mtu, fr_chunks>>
    /\ UNCHANGED <<aeadVars, kexVars, svcVars, extVars>>

\* Reassembler::clear is declared in frag.hpp and has no caller
FeedNext == FeedAny

SpecFeed == FeedInit /\ [][FeedNext]_vars

\* the state feed creates for the first fragment c of a message
FreshState(c) ==
    [total |-> c.hdr.total, received |-> 1, bytes |-> Len(c.payload),
     parts |-> [i \in 1..c.hdr.total |-> IF i = c.hdr.seq + 1 THEN c.payload ELSE <<>>],
     have |-> [i \in 1..c.hdr.total |-> i = c.hdr.seq + 1]]

\* C32: the state of a msg_id is created by the first fragment of an unseen
\* msg_id, removed when the message completes, and started afresh (stored
\* fragments discarded) by a fragment of the same msg_id that declares a
\* different total; a fragment with seq >= total or total = 0 is rejected
\* and creates or changes no state
C32_StateLifecycle ==
    [][LET c  == fr_feeds'[1]
           id == c.hdr.msg_id
       IN  /\ \A k \in FeedIds \ {id} :
                /\ (k \in DOMAIN map_') = (k \in DOMAIN map_)
                /\ k \in DOMAIN map_ => map_'[k] = map_[k]
           /\ (c.hdr.total = 0 \/ c.hdr.seq >= c.hdr.total)
                => (map_' = map_ /\ fr_rets'[1] = None)
           /\ fr_rets'[1] # None => id \notin DOMAIN map_'
           /\ (c.hdr.total # 0 /\ c.hdr.seq < c.hdr.total
                 /\ c.hdr.len = Len(c.payload)
                 /\ (id \notin DOMAIN map_ \/ map_[id].total # c.hdr.total))
                => IF c.hdr.total = 1
                   THEN id \notin DOMAIN map_' /\ fr_rets'[1] = Some(c.payload)
                   ELSE /\ id \in DOMAIN map_' /\ map_'[id] = FreshState(c)
                        /\ fr_rets'[1] = None]_vars

\* a fragment that declares another total has replaced the stored fragments
\* of its msg_id while the other message is still being reassembled
C32_Witness ==
    /\ 1 \in DOMAIN map_ /\ 2 \in DOMAIN map_
    /\ map_[1].total = 3 /\ map_[1].received = 1 /\ map_[2].received = 2
    /\ fr_feeds # <<>> /\ fr_feeds[1].hdr.msg_id = 1 /\ fr_feeds[2] = 2

(***************************************************************************)
(* Codec specification: frag::serialize and frag::parse on headers and     *)
(* frames of every kind (frag.cpp, tests/test_frag.cpp)                    *)
(***************************************************************************)
\* header fields tried: both sides of every test of header_valid, and a
\* msg_id and a len that need more than one byte
CodecVers == {0, PROTO_VER, 2}
CodecMsgIds == {0, 258}
CodecSeqs == {0, 1, 2}
CodecTotals == {0, 1, 2}
CodecLens == {0, 1, MAX_PAYLOAD, MAX_PAYLOAD + 1}
\* the payload is that many bytes longer or shorter than the len field
CodecSlack == {-1, 0, 1}
\* the frame is cut to that many bytes (None: not cut)
CodecCuts == {None, Some(0), Some(HDR_SIZE - 1)}

\* n bytes of payload
Filler(n) == [i \in 1..n |-> AByte((i * 7) % 256)]

\* the bytes of a header on the wire, whatever the fields are (the frames a
\* peer can send are not limited to those pack_header accepts)
raw_header(h) ==
    <<AByte(h.ver), AByte(h.flags)>> \o BeBytes(h.msg_id, 4)
        \o BeBytes(h.seq, 2) \o BeBytes(h.total, 2) \o BeBytes(h.len, 2)

raw_frame(in) ==
    LET whole == raw_header(in.c.hdr) \o in.c.payload
    IN  IF in.cut = None THEN whole ELSE SubSeq(whole, 1, in.cut[1])

CodecInputs ==
    { [c |-> Chunk([ver |-> v, flags |-> f, msg_id |-> id, seq |-> s,
                    total |-> t, len |-> l],
                   Filler(IF l + d >= 0 THEN l + d ELSE 0)),
       cut |-> cut] :
        v \in CodecVers, f \in {0, FLAG_FINAL}, id \in CodecMsgIds,
        s \in CodecSeqs, t \in CodecTotals,
        l \in CodecLens, d \in CodecSlack, cut \in CodecCuts }

CodecInit ==
    /\ AeadIdle /\ KexIdle /\ SvcIdle /\ ExtIdle
    /\ fr_msg_id = 0 /\ fr_payload = <<>> /\ fr_mtu = 0 /\ fr_chunks = None
    /\ map_ = << >>
    /\ fr_feeds \in { <<in>> : in \in CodecInputs }
    /\ fr_rets = <<>>

\* serialize(c) of the chunk drawn
CodecSerialize ==
    /\ fr_rets = <<>>
    /\ fr_rets' = <<[op |-> "serialize", out |-> serialize(fr_feeds[1].c)]>>
    /\ UNCHANGED <<fr_msg_id, fr_payload, fr_mtu, fr_chunks, map_, fr_feeds>>
    /\ UNCHANGED <<aeadVars, kexVars, svcVars, extVars>>

\* parse(frame) of the frame drawn
CodecParse ==
    /\ fr_rets = <<>>
    /\ fr_rets' = <<[op |-> "parse", out |-> parse(raw_frame(fr_feeds[1]))]>>
    /\ UNCHANGED <<fr_msg_id, fr_payload, fr_mtu, fr_chunks, map_, fr_feeds>>
    /\ UNCHANGED <<aeadVars, kexVars, svcVars, extVars>>

\* parse(serialize(c)), as test_frag.cpp does
CodecRoundTrip ==
    /\ fr_rets = <<>>
    /\ fr_rets' = <<[op |-> "roundtrip", out |-> parse(serialize(fr_feeds[1].c))]>>
    /\ UNCHANGED <<fr_msg_id, fr_payload, fr_mtu, fr_chunks, map_, fr_feeds>>
    /\ UNCHANGED <<aeadVars, kexVars, svcVars, extVars>>

CodecNext == CodecSerialize \/ CodecParse \/ CodecRoundTrip

SpecCodec == CodecInit /\ [][CodecNext]_vars

\* the header of the chunk drawn is one the protocol allows
CodecValidHeader(h) ==
    h.ver = 1 /\ h.total >= 1 /\ h.seq < h.total /\ h.len <= 100

\* C33: parse accepts a frame if and only if it has at least 12 bytes, its
\* size is exactly 12 + len, and its header has ver = 1, total >= 1,
\* seq < total and len <= 100, and then returns the header and payload sent;
\* parse(serialize(f)) = f for every valid f; serialize fails (empty vector)
\* when the payload length differs from the header's len
C33_ParseSerialize ==
    fr_rets # <<>> =>
        LET in == fr_feeds[1]
            c  == in.c
            r  == fr_rets[1]
            ok == CodecValidHeader(c.hdr) /\ Len(c.payload) = c.hdr.len
        IN  /\ r.op = "parse" =>
                /\ (r.out # None) <=>
                       (Len(raw_frame(in)) >= 12 /\ in.cut = None /\ ok)
                /\ r.out # None => r.out = Some(c)
            /\ r.op = "roundtrip" => (ok => r.out = Some(c))
            /\ r.op = "serialize" =>
                /\ Len(c.payload) # c.hdr.len => r.out = <<>>
                /\ ok => (Len(r.out) = 12 + c.hdr.len /\ r.out = raw_header(c.hdr) \o c.payload)

\* a frame of 12 + 100 bytes with a two-byte msg_id was accepted
C33_Witness ==
    /\ fr_rets # <<>> /\ fr_rets[1].op = "parse" /\ fr_rets[1].out # None
    /\ fr_rets[1].out[1].hdr.len = 100 /\ fr_rets[1].out[1].hdr.msg_id = 258
    /\ fr_rets[1].out[1].hdr.seq = 1

\* fragments keep arriving from the link
SpecFeedLive == FeedInit /\ [][FeedNext]_vars /\ WF_vars(FeedAny)

\* msg_id 1 has a partial state and the last fragment fed belongs to another
\* message
StalePartial ==
    /\ 1 \in DOMAIN map_
    /\ fr_feeds # <<>> /\ fr_feeds[1].hdr.msg_id # 1

\* C34: an incomplete message is evicted from the reassembler after a
\* timeout: once fragments of other messages arrive and none of its own, its
\* partial state eventually leaves map_, so that the partial states held do
\* not pile up
C34_PartialEvicted ==
    StalePartial ~>
        (1 \notin DOMAIN map_ \/ (fr_feeds # <<>> /\ fr_feeds[1].hdr.msg_id = 1))

\* the calls of feed that returned a payload
Completions == {i \in DOMAIN fr_rets : fr_rets[i] # None}

\* C39: the reassembler returns each message at most once: after the message
\* has completed, a duplicate of one of its fragments produces no second
\* payload and leaves no new partial state
C39_AtMostOnce ==
    /\ Cardinality(Completions) <= 1
    /\ Completions # {} => map_ = << >>

\* the send_text calls whose fragments make up the payload feed returned
Origins(out) == {out[i] : i \in DOMAIN out}

\* C38: every payload the reassembler returns is made of the fragments of
\* one send_text call of one sender (the payload byte of a fragment names
\* its call): what is left of an incomplete message with the same msg_id is
\* never combined with the fragments of a later message
C38_SingleOrigin ==
    (fr_rets # <<>> /\ fr_rets[1] # None)
        => Cardinality(Origins(fr_rets[1][1])) <= 1

(***************************************************************************)
(* Final-fragment specification: the frames send_text makes, received by   *)
(* ChatService::on_rx of a peer that has HELLO enabled (part_009)          *)
(***************************************************************************)
\* send_text calls of the sender in one run
MaxFinalSends == 2
\* msg_id of the sender's next message at the start (next_id_ starts at 1)
FinalIds == {1, 2}
\* Settings::mtu_payload of both sides: the default and a value of the
\* BITCHAT_MTU_PAYLOAD range
FinalMtus == {56, BleMtu}
\* lengths of the texts sent
FinalTextLens == {1, 8, 52}

\* the side that sends
S == "peripheral"

FinalInit ==
    /\ FragIdle /\ AeadIdle /\ KexIdle /\ ExtIdle
    /\ \E psk \in PskProto, mtu \in FinalMtus, id \in FinalIds :
         /\ psk_env = [s \in Sides |-> psk]
         /\ chat = [s \in Sides |->
                      [NewChat(mtu, s = R, psk, TRUE, <<>>, get_na32(1))
                         EXCEPT !.next_id_ = IF s = S THEN id ELSE 1]]
         /\ aead_ = [s \in Sides |-> EngineOf(psk)]
    /\ tx_ = << >> /\ sent = << >> /\ got_hello = << >>
    /\ wire = [s \in Sides |-> <<>>]
    /\ period = 0
    /\ texts = <<>>
    /\ rx_text = [s \in Sides |-> <<>>]

\* send_text(msg) of the sender on a ready link: the transport takes every
\* frame
FinalSend ==
    /\ period < MaxFinalSends
    /\ wire[R] = <<>>
    /\ \E n \in FinalTextLens :
         LET r == send_text_chunks(chat[S], aead_[S], [i \in 1..n |-> 7], 5)
         IN  /\ chat' = [chat EXCEPT ![S] = r.chat]
             /\ wire' = [wire EXCEPT ![R] =
                           [k \in 1..Len(r.chunks) |-> serialize(r.chunks[k])]]
    /\ period' = period + 1
    /\ UNCHANGED <<psk_env, aead_, tx_, sent, got_hello, texts, rx_text>>
    /\ UNCHANGED <<fragVars, aeadVars, kexVars, extVars>>

\* bus thread of the receiver: on_rx of the next frame
FinalDeliver ==
    /\ wire[R] # <<>>
    /\ LET f == Head(wire[R])
           r == on_rx(chat[R], aead_[R], psk_env[R], f)
       IN  /\ chat' = [chat EXCEPT ![R] = r.chat]
           /\ aead_' = [aead_ EXCEPT ![R] = r.aead]
           /\ texts' = <<[final |-> parse(f)[1].hdr.flags = FLAG_FINAL, ev |-> r.ev,
                          msg_id |-> parse(f)[1].hdr.msg_id]>>
           /\ rx_text' = [rx_text EXCEPT ![R] = @ \o r.out]
    /\ wire' = [wire EXCEPT ![R] = Tail(@)]
    /\ UNCHANGED <<psk_env, tx_, sent, got_hello, period>>
    /\ UNCHANGED <<fragVars, aeadVars, kexVars, extVars>>

FinalNext == FinalSend \/ FinalDeliver

SpecFinal == FinalInit /\ [][FinalNext]_vars

\* C37: with HELLO enabled, every fragment frame send_text produced, the
\* FINAL fragments (which start with 0x01 0x01) included, is fed to the
\* reassembler; none is consumed as a HELLO, whatever its msg_id and bytes
C37_FragmentsNotHello ==
    texts # <<>> => texts[1].ev \in {"partial", "plain"}

(***************************************************************************)
(* MTU specification: the daemon reads BITCHAT_MTU_PAYLOAD, creates the    *)
(* ChatService with it, and send_text cuts a text to that size             *)
(* (part_002 main, part_009 send_text)                                     *)
(***************************************************************************)
\* send_text calls in one run
MaxMtuSends == 2
\* the default of main
DefaultMtu == 100
\* limits of the values main accepts
EnvMtuMin == 20
EnvMtuMax == 244
\* BITCHAT_MTU_PAYLOAD as parsed by strtoul (None: unset or not a number):
\* both sides of each limit of the accepted range and of the largest size
\* make_chunks takes
MtuEnvs ==
    {None} \cup {Some(v) : v \in {EnvMtuMin - 1, EnvMtuMin, DefaultMtu,
                                   MAX_PAYLOAD + HDR_SIZE,
                                   MAX_PAYLOAD + HDR_SIZE + 1,
                                   EnvMtuMax, EnvMtuMax + 1}}
\* lengths of the texts sent
MtuTextLens == {1, 8, 52}

\* main: the mtu_payload handed to ChatService
mtu_of_env(env) ==
    IF env # None /\ env[1] >= EnvMtuMin /\ env[1] <= EnvMtuMax
    THEN env[1] ELSE DefaultMtu

MtuInit ==
    /\ FragIdle /\ AeadIdle /\ KexIdle /\ ExtIdle
    /\ psk_env \in [{S} -> PskProto]
    /\ chat = << >> /\ aead_ = << >> /\ tx_ = << >>
    /\ sent = << >> /\ got_hello = << >>
    /\ wire = [s \in {S} |-> <<>>]
    /\ period = 0
    /\ texts = <<>>
    /\ rx_text = << >>

\* main: parse the environment, create the ChatService and start it
MtuStart ==
    /\ chat = << >>
    /\ \E env \in MtuEnvs :
         /\ tx_' = [s \in {S} |-> [env |-> env, mtu_payload |-> mtu_of_env(env)]]
         /\ chat' = [s \in {S} |->
                       NewChat(mtu_of_env(env), FALSE, psk_env[S], TRUE, <<>>,
                               get_na32(1))]
    /\ aead_' = [s \in {S} |-> EngineOf(psk_env[S])]
    /\ UNCHANGED <<psk_env, wire, period, sent, got_hello, texts, rx_text>>
    /\ UNCHANGED <<fragVars, aeadVars, kexVars, extVars>>

\* send_text(msg) of a non-empty text on a ready link (tx_.send takes every
\* frame it is given)
MtuSend ==
    /\ chat # << >>
    /\ period < MaxMtuSends
    /\ \E n \in MtuTextLens :
         LET r == send_text_chunks(chat[S], aead_[S], [i \in 1..n |-> 7], 5)
             frames == [k \in 1..Len(r.chunks) |-> serialize(r.chunks[k])]
         IN  /\ chat' = [chat EXCEPT ![S] = r.chat]
             /\ wire' = [wire EXCEPT ![S] = [k \in 1..Len(frames) |-> Len(frames[k])]]
             /\ texts' = <<[len |-> n, ret |-> ~r.failed,
                            payload_mtu |-> payload_mtu(chat[S].mtu_payload_)]>>
    /\ period' = period + 1
    /\ UNCHANGED <<psk_env, aead_, tx_, sent, got_hello, rx_text>>
    /\ UNCHANGED <<fragVars, aeadVars, kexVars, extVars>>

MtuNext == MtuStart \/ MtuSend

SpecMtu == MtuInit /\ [][MtuNext]_vars

\* C40: for every MTU_PAYLOAD the daemon accepts and for the default, the
\* per-fragment payload size of send_text lies in [1, 100], send_text of a
\* non-empty text on a ready link returns true, and no frame it sends is
\* longer than the transport MTU
C40_AcceptedMtuWorks ==
    texts # <<>> =>
        /\ texts[1].payload_mtu >= 1 /\ texts[1].payload_mtu <= 100
        /\ texts[1].ret
        /\ wire[S] # <<>>
        /\ \A k \in DOMAIN wire[S] : wire[S][k] <= tx_[S].mtu_payload

(***************************************************************************)
(* Key-exchange race specification: the HELLO specification with           *)
(* derive_and_install cut between its reads of na32_ / peer_na32_ (the     *)
(* memcpy into ikm) and aead_.set_session.  on_rx runs on the bus thread   *)
(* and the edge block on the hello thread; ChatService has no lock.        *)
(***************************************************************************)
RaceInit ==
    /\ FragIdle /\ AeadIdle /\ KexIdle /\ ExtIdle
    /\ psk_env \in PskConfigs
    /\ chat = [s \in Sides |->
                 [ikm |-> None]
                   @@ NewChat(BleMtu, s = "central", psk_env[s], TRUE, UserOf(s),
                              get_na32(IF s = "central" THEN 1 ELSE 2))]
    /\ aead_ = [s \in Sides |-> EngineOf(psk_env[s])]
    /\ tx_ = [s \in Sides |->
                [name |-> "bluez", started_ |-> TRUE, mtu_ |-> BleMtu, link |-> FALSE]]
    /\ wire = [s \in Sides |-> <<>>]
    /\ period = 0
    /\ sent = [s \in Sides |-> None]
    /\ got_hello = [s \in Sides |-> FALSE]
    /\ texts = <<>>
    /\ rx_text = [s \in Sides |-> <<>>]

\* bus thread: on_rx of the next frame up to the memcpy of the two nonces
\* into ikm (the whole of on_rx when it does not derive)
RaceRx(s) ==
    /\ wire[s] # <<>>
    /\ chat[s].ikm = None
    /\ LET m == Head(wire[s])
           r == on_rx(chat[s], aead_[s], psk_env[s], m.bytes)
       IN  /\ chat' = [chat EXCEPT ![s] =
                         IF r.aead # aead_[s]
                         THEN [r.chat EXCEPT
                                 !.aead_on_ = chat[s].aead_on_,
                                 !.ikm = Some([na32_ |-> r.chat.na32_,
                                               peer_na32_ |-> r.chat.peer_na32_])]
                         ELSE r.chat]
           /\ wire' = [wire EXCEPT ![s] = Tail(@)]
           /\ got_hello' = [got_hello EXCEPT ![s] = @ \/ r.ev = "hello"]
    /\ UNCHANGED <<psk_env, aead_, tx_, sent, texts, rx_text>>
    /\ UNCHANGED <<fragVars, aeadVars, kexVars, period, extVars>>

\* bus thread: the rest of derive_and_install: HKDF over ikm,
\* aead_.set_session(&k_local), aead_on_ = true
RaceInstall(s) ==
    /\ chat[s].ikm # None
    /\ LET snap == [chat[s] EXCEPT !.na32_ = chat[s].ikm[1].na32_,
                                   !.peer_na32_ = chat[s].ikm[1].peer_na32_]
           d    == derive_and_install(snap, aead_[s], psk_env[s])
       IN  /\ aead_' = [aead_ EXCEPT ![s] = d.aead]
           /\ chat' = [chat EXCEPT ![s].aead_on_ = TRUE, ![s].ikm = None]
    /\ UNCHANGED <<psk_env, tx_, wire, sent, got_hello, texts, rx_text>>
    /\ UNCHANGED <<fragVars, aeadVars, kexVars, period, extVars>>

RaceNext ==
    \/ LinkUp
    \/ LinkDown
    \/ \E s \in Sides : HelloPoll(s)
    \/ \E s \in Sides : HelloBody(s)
    \/ \E s \in Sides : RaceRx(s)
    \/ \E s \in Sides : RaceInstall(s)

SpecRace == RaceInit /\ [][RaceNext]_vars

\* the input key material (central nonce, then peripheral nonce) the session
\* keys of engine e were derived from
SessionIkm(e) == SubSeq(e.key_tx_, Len(e.key_tx_) - 2 * NA32_SIZE + 1, Len(e.key_tx_))

\* sessions are installed on both sides of a link that is up
BothSessions ==
    /\ \A s \in Sides : tx_[s].link
    /\ \A s \in Sides : aead_[s].have_session_

\* C36: whenever sessions are installed on both sides of a link, both were
\* derived from the same pair (Na, Nb), each side's own nonce being the one
\* of the HELLO it sent last on this link
C36_SessionsAgree ==
    BothSessions =>
        /\ SessionIkm(aead_["central"]) = SessionIkm(aead_["peripheral"])
        /\ SessionIkm(aead_["central"])
             = chat["central"].na32_ \o chat["peripheral"].na32_

\* ---- central_pump with its subscribe branch cut at the lock boundaries ----
\* The loop thread tests connected(), subscribed(), dev_path() and
\* peer_tx_path without bus_mu and takes bus_mu only inside
\* central_find_gatt_paths and central_enable_notify; handover_to runs on the
\* calling thread and may take bus_mu between any two of these steps.

\* central_pump: if (connected() && !subscribed()), then the kick of service
\* discovery while services are not resolved
SubTest ==
    /\ ce_pc.loop = "pump5"
    /\ ce' = IF ce.connected /\ ~ce.subscribed /\ ~ce.services_resolved
             THEN [ce EXCEPT !.discover_submitted = TRUE] ELSE ce
    /\ ce_pc' = [ce_pc EXCEPT !.loop = IF ce.connected /\ ~ce.subscribed
                                       THEN "find_chk" ELSE "pump_end"]
    /\ UNCHANGED <<ce_env, ce_now, ce_g, cenRest>>

\* central_find_gatt_paths, before the lock: returns false on an empty
\* dev_path
SubFindCheck ==
    /\ ce_pc.loop = "find_chk"
    /\ ce_pc' = [ce_pc EXCEPT !.loop = IF ce.dev_path = 0
                                       THEN "pump_end" ELSE "find"]
    /\ UNCHANGED <<ce, ce_env, ce_now, ce_g, cenRest>>

\* central_find_gatt_paths under bus_mu: dev_prefix is dev_path() + "/" read
\* again; an empty dev_path gives the prefix "/", which every object of
\* BlueZ's tree has, so the characteristics of any known device p match;
\* the result is whether the cached paths are all set
SubFind ==
    /\ ce_pc.loop = "find"
    /\ \E found \in BOOLEAN, p \in ce_env.known :
         ce' = IF found
               THEN [ce EXCEPT !.paths = IF ce.dev_path # 0 THEN ce.dev_path ELSE p]
               ELSE ce
    /\ ce_pc' = [ce_pc EXCEPT !.loop = IF ce'.paths # 0
                                       THEN "notify_chk" ELSE "pump_end"]
    /\ UNCHANGED <<ce_env, ce_now, ce_g, cenRest>>

\* central_enable_notify, before the lock: returns false on an empty
\* peer_tx_path
SubNotifyCheck ==
    /\ ce_pc.loop = "notify_chk"
    /\ ce_pc' = [ce_pc EXCEPT !.loop = IF ce.paths = 0
                                       THEN "pump_end" ELSE "notify"]
    /\ UNCHANGED <<ce, ce_env, ce_now, ce_g, cenRest>>

\* central_enable_notify under bus_mu: char_start_notify_locked calls
\* StartNotify on peer_tx_path (sd-bus refuses an empty object path) and
\* stores subscribed = true when the call succeeds
SubNotify ==
    /\ ce_pc.loop = "notify"
    /\ \E ok \in BOOLEAN :
         ce' = IF ok /\ ce.paths # 0 THEN [ce EXCEPT !.subscribed = TRUE] ELSE ce
    /\ ce_pc' = [ce_pc EXCEPT !.loop = "pump_end"]
    /\ UNCHANGED <<ce_env, ce_now, ce_g, cenRest>>

\* central_pump, discovery policy and refresh, to the end of the pump
SubEnd ==
    /\ ce_pc.loop = "pump_end"
    /\ \E dok \in BOOLEAN :
         ce' = pump_refresh(pump_discovery(ce, dok), ce_now)
    /\ ce_pc' = [ce_pc EXCEPT !.loop = "process"]
    /\ ce_g' = [ce_g EXCEPT
                   !.disc_re = @ \/ (ce'.discovery_on /\ ce_g.h_n > 0),
                   !.ticks = IF ce_pc.fresh /\ @ < 2 THEN @ + 1 ELSE @]
    /\ UNCHANGED <<ce_env, ce_now, cenRest>>

SubNext ==
    \/ ConnectReply \/ EvIfaceAdded \/ EvDisconnected \/ EvServicesResolved
    \/ DispatchValue \/ LoopWait
    \/ Pump1 \/ Pump2 \/ Pump3 \/ Pump4
    \/ SubTest \/ SubFindCheck \/ SubFind \/ SubNotifyCheck \/ SubNotify \/ SubEnd
    \/ EnvNotify \/ HandoverCrit \/ HandoverRestart

SpecSubscribe == CenInit /\ [][SubNext]_vars

\* BluezTransport::link_ready of the central
central_link_ready == ce.connected /\ ce.subscribed

\* C35: whenever the central reports link_ready, dev_path is non-empty and
\* the cached characteristic paths are non-empty and lie under dev_path (the
\* subscription is one made on that device); subscribed is never true while
\* connected is false
C35_ReadyMeansSubscribedHere ==
    /\ central_link_ready => (ce.dev_path # 0 /\ ce.paths # 0 /\ ce.paths = ce.dev_path)
    /\ ce.subscribed => ce.connected

=============================================================================
